---- MODULE Spec2Model ----
(***************************************************************************)
(* typed-cdp-sql: the text path (TypedQuery: normalise, split clauses,     *)
(* resolve the row shape of a SQL string) and the builder path             *)
(* (CdpQueryCreator / SelectQueryBuilder / compileQuery).                  *)
(*                                                                         *)
(* Text is a sequence of lexemes.  A lexeme is a maximal run of letters,   *)
(* digits and '_' (an identifier, keyword or number), or one single other  *)
(* character (a blank, a dot, a quote, a bracket, ...).  Every literal of  *)
(* every template-literal pattern and regular expression of the source     *)
(* begins and ends at a lexeme boundary, so matching on lexemes is         *)
(* matching on characters.  Solidity type names are the one place where a  *)
(* pattern cuts an identifier (`uint${string}`): there the name is split   *)
(* into its prefix and the rest.                                           *)
(***************************************************************************)
EXTENDS Integers, Sequences, FiniteSets, TLC

VARIABLES creators, builders, sql, tq

vars == <<creators, builders, sql, tq>>

(***************************************************************************)
(* Strings                                                                 *)
(***************************************************************************)

\* The empty string; also what an absent optional string field holds (the
\* source tests such fields for truthiness, and '' is falsy like undefined).
Empty == <<>>

W(t) == <<t>>

WhitespaceChar == {" ", "\n", "\t", "\r"}

RECURSIVE FindFrom(_, _, _)
\* Index of the first occurrence of pat in s at or after i; 0 when none.
FindFrom(s, pat, i) ==
  IF i + Len(pat) - 1 > Len(s) THEN 0
  ELSE IF SubSeq(s, i, i + Len(pat) - 1) = pat THEN i
  ELSE FindFrom(s, pat, i + 1)

Find(s, pat) == FindFrom(s, pat, 1)

Contains(s, pat) == Find(s, pat) > 0

StartsWith(s, pat) == Len(s) >= Len(pat) /\ SubSeq(s, 1, Len(pat)) = pat

EndsWith(s, pat) ==
  Len(s) >= Len(pat) /\ SubSeq(s, Len(s) - Len(pat) + 1, Len(s)) = pat

\* `${infer A}<pat>${infer B}`: A is what precedes the first occurrence of pat.
Before(s, pat) == SubSeq(s, 1, Find(s, pat) - 1)

After(s, pat) == SubSeq(s, Find(s, pat) + Len(pat), Len(s))

\* `<pre>${infer Inner}<post>`: the text between a fixed prefix and suffix.
Wrapped(s, pre, post) ==
  /\ Len(s) >= Len(pre) + Len(post)
  /\ StartsWith(s, pre)
  /\ EndsWith(s, post)

Inside(s, pre, post) == SubSeq(s, Len(pre) + 1, Len(s) - Len(post))

RECURSIVE JoinWith(_, _)
\* Array.prototype.join
JoinWith(parts, sep) ==
  IF Len(parts) = 0 THEN Empty
  ELSE IF Len(parts) = 1 THEN parts[1]
  ELSE parts[1] \o sep \o JoinWith(Tail(parts), sep)

\* The lexemes with an upper-case letter that the inputs below are written in.
LowerPairs ==
  {
     <<"SELECT", "select">>, <<"FROM", "from">>, <<"WHERE", "where">>,
     <<"AS", "as">>, <<"GROUP", "group">>, <<"BY", "by">>,
     <<"ORDER", "order">>, <<"LIMIT", "limit">>, <<"HAVING", "having">>,
     <<"JOIN", "join">>, <<"INNER", "inner">>, <<"LEFT", "left">>,
     <<"RIGHT", "right">>, <<"FULL", "full">>, <<"CROSS", "cross">>,
     <<"ON", "on">>, <<"DISTINCT", "distinct">>, <<"AND", "and">>,
     <<"OR", "or">>, <<"NOT", "not">>, <<"ASC", "asc">>,
     <<"DESC", "desc">>, <<"WITH", "with">>, <<"UNION", "union">>,
     <<"CAST", "cast">>, <<"NULL", "null">>, <<"IN", "in">>,
     <<"IS", "is">>, <<"BETWEEN", "between">>, <<"LIKE", "like">>,
     <<"COUNT", "count">>, <<"SUM", "sum">>, <<"AVG", "avg">>,
     <<"MIN", "min">>, <<"MAX", "max">>, <<"Select", "select">>,
     <<"From", "from">>, <<"Where", "where">>, <<"Hex", "hex">>,
     <<"String", "string">>, <<"DateTime", "datetime">>, <<"DateTime64", "datetime64">>,
     <<"Int8", "int8">>, <<"Bool", "bool">>, <<"Array", "array">>,
     <<"Map", "map">>, <<"Variant", "variant">>, <<"Int256", "int256">>,
     <<"UInt256", "uint256">>, <<"UInt64", "uint64">>, <<"Nullable", "nullable">>,
     <<"Enum8", "enum8">>, <<"Transfer", "transfer">>, <<"Approval", "approval">>,
     <<"Mint", "mint">>, <<"SomeUnknownEvent", "someunknownevent">>, <<"argMax", "argmax">>,
     <<"unknownParam", "unknownparam">> }

LowerTable ==
  [t \in {p[1] : p \in LowerPairs} |-> (CHOOSE p \in LowerPairs : p[1] = t)[2]]

\* Lowercase<S> on one lexeme
LowerTok(t) == IF t \in DOMAIN LowerTable THEN LowerTable[t] ELSE t

\* Lowercase<S>
Lowercase(s) == [i \in 1..Len(s) |-> LowerTok(s[i])]

\* String.prototype.toUpperCase on the direction words orderBy accepts
toUpperCase(s) ==
  [i \in 1..Len(s) |->
     IF s[i] = "asc" THEN "ASC" ELSE IF s[i] = "desc" THEN "DESC" ELSE s[i]]

RECURSIVE TrimStart(_)
TrimStart(s) ==
  IF Len(s) > 0 /\ s[1] \in WhitespaceChar THEN TrimStart(Tail(s)) ELSE s

RECURSIVE TrimEnd(_)
TrimEnd(s) ==
  IF Len(s) > 0 /\ s[Len(s)] \in WhitespaceChar
  THEN TrimEnd(SubSeq(s, 1, Len(s) - 1))
  ELSE s

Trim(s) == TrimStart(TrimEnd(s))

RECURSIVE CollapseWhitespace(_)
CollapseWhitespace(s) ==
  IF Contains(s, W("\n"))
    THEN CollapseWhitespace(Before(s, W("\n")) \o W(" ") \o After(s, W("\n")))
  ELSE IF Contains(s, W("\r"))
    THEN CollapseWhitespace(Before(s, W("\r")) \o W(" ") \o After(s, W("\r")))
  ELSE IF Contains(s, W("\t"))
    THEN CollapseWhitespace(Before(s, W("\t")) \o W(" ") \o After(s, W("\t")))
  ELSE IF Contains(s, <<" ", " ">>)
    THEN CollapseWhitespace(
           Before(s, <<" ", " ">>) \o W(" ") \o After(s, <<" ", " ">>))
  ELSE s

StripSemicolon(s) ==
  IF EndsWith(s, W(";")) THEN Trim(SubSeq(s, 1, Len(s) - 1)) ELSE s

\* Normalize without the lower-casing
NormalizeCased(s) == StripSemicolon(Trim(CollapseWhitespace(s)))

Normalize(s) == StripSemicolon(Trim(CollapseWhitespace(Lowercase(s))))

RECURSIVE SplitByCommaAcc(_, _, _, _)
SplitByCommaAcc(s, depth, current, result) ==
  IF Len(s) = 0
    THEN IF current = Empty THEN result ELSE Append(result, Trim(current))
  ELSE LET char == s[1]
           rest == Tail(s)
       IN IF char \in {"(", "["}
            THEN SplitByCommaAcc(rest, depth + 1, Append(current, char), result)
          ELSE IF char \in {")", "]"}
            THEN SplitByCommaAcc(rest, IF depth > 0 THEN depth - 1 ELSE 0,
                                 Append(current, char), result)
          ELSE IF char = ","
            THEN IF depth = 0
                   THEN SplitByCommaAcc(rest, 0, Empty,
                                        Append(result, Trim(current)))
                   ELSE SplitByCommaAcc(rest, depth, Append(current, char),
                                        result)
          ELSE SplitByCommaAcc(rest, depth, Append(current, char), result)

SplitByComma(s) == SplitByCommaAcc(s, 0, Empty, <<>>)

(***************************************************************************)
(* Response types (TypeScript types): a type is the set of the members of  *)
(* its union.                                                              *)
(***************************************************************************)

Prim(k) == {[k |-> k, of |-> {}]}

NumericString == Prim("numstr")      \* `${number}`
HexString == Prim("hex")             \* `0x${string}`
PlainString == Prim("string")        \* string
Boolean == Prim("boolean")           \* boolean
SmallInt == Prim("number")           \* number
Null == Prim("null")                 \* null
Unknown == Prim("unknown")           \* unknown
Never == {}                          \* never
ArrayOf(t) == {[k |-> "array", of |-> t]}
RecordOf(t) == {[k |-> "record", of |-> t]}   \* Record<string, t>

\* A | B (unknown absorbs every other member)
TsUnion(a, b) == IF Unknown \subseteq (a \cup b) THEN Unknown ELSE a \cup b

\* boolean | `${number}` | string
Variant == TsUnion(TsUnion(Boolean, NumericString), PlainString)

\* T extends Record<string, infer V> ? V : unknown
MapValueType(t) ==
  IF t # {} /\ \A m \in t : m.k = "record"
  THEN UNION {m.of : m \in t}
  ELSE Unknown

RECURSIVE MapSqlType(_)
\* MapSqlType<T> for one SQL type name T
MapSqlType(T) ==
  IF T = W("uint64") THEN NumericString
  ELSE IF T = W("uint256") THEN NumericString
  ELSE IF T = W("int256") THEN NumericString
  ELSE IF T = W("hex") THEN HexString
  ELSE IF T = W("string") THEN PlainString
  ELSE IF Wrapped(T, <<"nullable", "(">>, W(")"))
    THEN TsUnion(MapSqlType(Trim(Inside(T, <<"nullable", "(">>, W(")")))), Null)
  ELSE IF T = W("datetime") THEN PlainString
  ELSE IF StartsWith(T, W("datetime64")) THEN PlainString
  ELSE IF T = W("bool") THEN Boolean
  ELSE IF T = W("int8") THEN SmallInt
  ELSE IF T = W("uint32") THEN SmallInt
  ELSE IF StartsWith(T, W("enum8")) THEN SmallInt
  ELSE IF Wrapped(T, <<"array", "(">>, W(")"))
    THEN ArrayOf(MapSqlType(Trim(Inside(T, <<"array", "(">>, W(")")))))
  ELSE IF Wrapped(T, <<"map", "(">>, W(")"))
    THEN LET S == Trim(Inside(T, <<"map", "(">>, W(")")))
         IN \* ParseMapType<S>: split at the first ", "
            IF Contains(S, <<",", " ">>)
            THEN RecordOf(MapSqlType(Trim(After(S, <<",", " ">>))))
            ELSE RecordOf(Unknown)
  ELSE IF Wrapped(T, <<"variant", "(">>, W(")")) THEN Variant
  ELSE Unknown

\* MapSqlTypes with the Lowercase forgotten: the catalog spells its type names
\* with capitals ('Hex', 'String'), MapSqlType knows the lower-case ones.
MapSqlTypesCaseSensitive(Ts) ==
  LET parts == {MapSqlType(T) : T \in Ts}
  IN IF \E p \in parts : p = Unknown THEN Unknown ELSE UNION parts

\* MapSqlType<Lowercase<T>> distributed over a union T of SQL type names
MapSqlTypes(Ts) ==
  LET parts == {MapSqlType(Lowercase(T)) : T \in Ts}
  IN IF \E p \in parts : p = Unknown THEN Unknown ELSE UNION parts

(***************************************************************************)
(* The schema catalog: column name -> SQL type name                        *)
(***************************************************************************)

tUint64 == W("uint64")
tUint32 == W("uint32")
tUint256 == W("uint256")
tHex == W("Hex")
tString == W("String")
tBool == W("Bool")
tInt8 == W("Int8")
tDateTime == W("DateTime")
tDateTime64 == <<"DateTime64", "(", "9", ")">>
tArrayHex == <<"Array", "(", "Hex", ")">>
tParameters ==
  <<"Map", "(", "String", ",", " ", "Variant", "(", "Bool", ",", " ",
    "Int256", ",", " ", "String", ",", " ", "uint256", ")", ")">>
tParameterTypes == <<"Map", "(", "String", ",", " ", "String", ")">>

\* A schema maps each column name to the union of its SQL type names (one
\* name for a catalog table, maybe two after MergeSchemas).
MkSchema(cols) ==
  [c \in {W(p[1]) : p \in cols} |-> {(CHOOSE p \in cols : W(p[1]) = c)[2]}]

BlocksSchema ==
  MkSchema({
    <<"block_number", tUint64>>, <<"block_hash", tHex>>,
    <<"parent_hash", tHex>>, <<"timestamp", tDateTime>>, <<"miner", tHex>>,
    <<"nonce", tUint64>>, <<"sha3_uncles", tHex>>,
    <<"transactions_root", tHex>>, <<"state_root", tHex>>,
    <<"receipts_root", tHex>>, <<"logs_bloom", tHex>>,
    <<"gas_limit", tUint64>>, <<"gas_used", tUint64>>,
    <<"base_fee_per_gas", tUint64>>, <<"total_difficulty", tString>>,
    <<"size", tUint64>>, <<"extra_data", tHex>>, <<"mix_hash", tHex>>,
    <<"withdrawals_root", tHex>>, <<"parent_beacon_block_root", tHex>>,
    <<"blob_gas_used", tUint64>>, <<"excess_blob_gas", tUint64>>,
    <<"transaction_count", tUint64>>, <<"action", tInt8>> })

EventsSchema ==
  MkSchema({
    <<"block_number", tUint64>>, <<"block_hash", tHex>>,
    <<"timestamp", tDateTime64>>, <<"transaction_hash", tHex>>,
    <<"transaction_to", tHex>>, <<"transaction_from", tHex>>,
    <<"transaction_index", tUint64>>, <<"log_index", tUint64>>,
    <<"address", tHex>>, <<"topics", tArrayHex>>, <<"event_name", tString>>,
    <<"event_signature", tString>>, <<"parameters", tParameters>>,
    <<"parameter_types", tParameterTypes>>, <<"action", tInt8>> })

TransactionsSchema ==
  MkSchema({
    <<"block_number", tUint64>>, <<"block_hash", tHex>>,
    <<"transaction_hash", tHex>>, <<"transaction_index", tUint64>>,
    <<"from_address", tHex>>, <<"to_address", tHex>>, <<"value", tString>>,
    <<"gas", tUint64>>, <<"gas_price", tUint64>>, <<"input", tHex>>,
    <<"nonce", tUint64>>, <<"type", tUint64>>,
    <<"max_fee_per_gas", tUint64>>, <<"max_priority_fee_per_gas", tUint64>>,
    <<"chain_id", tUint64>>, <<"v", tHex>>, <<"r", tHex>>, <<"s", tHex>>,
    <<"is_system_tx", tBool>>, <<"max_fee_per_blob_gas", tString>>,
    <<"blob_versioned_hashes", tArrayHex>>, <<"timestamp", tDateTime64>>,
    <<"action", tInt8>> })

EncodedLogsSchema ==
  MkSchema({
    <<"block_number", tUint64>>, <<"block_hash", tHex>>,
    <<"block_timestamp", tDateTime64>>, <<"transaction_hash", tHex>>,
    <<"transaction_to", tHex>>, <<"transaction_from", tHex>>,
    <<"log_index", tUint32>>, <<"address", tHex>>, <<"topics", tArrayHex>>,
    <<"action", tInt8>> })

TransfersSchema ==
  MkSchema({
    <<"block_number", tUint64>>, <<"block_timestamp", tDateTime64>>,
    <<"transaction_to", tHex>>, <<"transaction_from", tHex>>,
    <<"log_index", tUint32>>, <<"token_address", tHex>>,
    <<"from_address", tHex>>, <<"to_address", tHex>>, <<"value", tUint256>>,
    <<"action", tInt8>> })

BaseName(t) == <<"base", ".", t>>

\* TableSchemas / cdpSchemas
TableSchemas ==
  LET short == [t \in {"blocks", "events", "transactions", "encoded_logs",
                       "transfers"} |->
                 CASE t = "blocks" -> BlocksSchema
                   [] t = "events" -> EventsSchema
                   [] t = "transactions" -> TransactionsSchema
                   [] t = "encoded_logs" -> EncodedLogsSchema
                   [] t = "transfers" -> TransfersSchema]
  IN [n \in {W(t) : t \in DOMAIN short} \cup {BaseName(t) : t \in DOMAIN short} |->
        short[n[Len(n)]]]

(***************************************************************************)
(* Text path: parse-from                                                   *)
(***************************************************************************)

\* What a conditional type that fails to match yields: never.
NeverStr == W("<never>")

Sp(t) == <<" ", t, " ">>

\* StripAlias<S>: "base.blocks b" -> "base.blocks"
StripAlias(S) == IF Contains(S, W(" ")) THEN Before(S, W(" ")) ELSE S

ClauseKeywords ==
  <<"where", "group", "order", "limit", "having", "union", "join", "inner",
    "left", "right", "full", "cross">>

RECURSIVE StripAfterKeywordFrom(_, _)
StripAfterKeywordFrom(S, i) ==
  IF i > Len(ClauseKeywords) THEN StripAlias(Trim(S))
  ELSE IF Contains(S, Sp(ClauseKeywords[i]))
    THEN StripAlias(Trim(Before(S, Sp(ClauseKeywords[i]))))
  ELSE StripAfterKeywordFrom(S, i + 1)

\* StripAfterKeyword<S>: the keywords are tried in the order of the source
StripAfterKeyword(S) == StripAfterKeywordFrom(S, 1)

ExtractTableName(S) ==
  IF Contains(S, Sp("from"))
  THEN StripAfterKeyword(Trim(After(S, Sp("from"))))
  ELSE NeverStr

ExtractJoinedTableName(S) ==
  IF Contains(S, Sp("join"))
  THEN LET Rest == After(S, Sp("join"))
       IN IF Contains(Rest, Sp("on"))
          THEN StripAlias(Trim(Before(Rest, Sp("on"))))
          ELSE StripAfterKeyword(Trim(Rest))
  ELSE NeverStr

HasJoin(S) == Contains(S, Sp("join"))

(***************************************************************************)
(* Text path: parse-select                                                 *)
(***************************************************************************)

ExtractSelectList(S) ==
  LET pd == <<"select", " ", "distinct", " ">>
      ps == <<"select", " ">>
      rd == SubSeq(S, Len(pd) + 1, Len(S))
      rs == SubSeq(S, Len(ps) + 1, Len(S))
  IN IF StartsWith(S, pd) /\ Contains(rd, Sp("from"))
       THEN Trim(Before(rd, Sp("from")))
     ELSE IF StartsWith(S, ps) /\ Contains(rs, Sp("from"))
       THEN Trim(Before(rs, Sp("from")))
     ELSE NeverStr

IsSelectStar(S) == Trim(S) = W("*")

InferDefaultAlias(S) ==
  IF Contains(S, W("[")) THEN S
  ELSE IF Contains(S, W("(")) THEN S
  ELSE IF Contains(S, W(".")) THEN After(S, W("."))
  ELSE S

RECURSIVE FindLastAs(_, _)
FindLastAs(Prefix, Rest) ==
  IF Contains(Rest, Sp("as"))
  THEN LET A == Before(Rest, Sp("as"))
           B == After(Rest, Sp("as"))
       IN IF Contains(B, Sp("as"))
          THEN FindLastAs(Prefix \o Sp("as") \o A, B)
          ELSE [expr |-> Trim(Prefix \o Sp("as") \o A), alias |-> Trim(B)]
  ELSE [expr |-> Trim(Prefix \o Sp("as") \o Rest),
        alias |-> InferDefaultAlias(Trim(Prefix \o Sp("as") \o Rest))]

ParseSingleItem(S) ==
  LET T == Trim(S)
  IN IF Contains(T, Sp("as"))
     THEN LET Expr == Before(T, Sp("as"))
              Alias == After(T, Sp("as"))
          IN IF Contains(Alias, Sp("as"))
             THEN FindLastAs(Trim(Expr), Alias)
             ELSE [expr |-> Trim(Expr), alias |-> Trim(Alias)]
     ELSE [expr |-> T, alias |-> InferDefaultAlias(T)]

\* ParseSelectItems<S> (ParseItemTuple over SplitByComma)
ParseSelectItems(S) ==
  LET parts == SplitByComma(S)
  IN [i \in 1..Len(parts) |-> ParseSingleItem(parts[i])]

(***************************************************************************)
(* Text path: parse-expressions                                            *)
(***************************************************************************)

\* `${infer Col}<open>${string}<close>`: the closing literal ends the text and
\* the opening literal is searched in what precedes it.
IndexMatch(Expr, open, close) ==
  EndsWith(Expr, close)
  /\ Contains(SubSeq(Expr, 1, Len(Expr) - Len(close)), open)

IndexCol(Expr, open, close) ==
  Before(SubSeq(Expr, 1, Len(Expr) - Len(close)), open)

Call(f) == <<f, "(">>

RECURSIVE ResolveExpression(_, _)
ResolveExpression(Expr, Schema) ==
  IF Expr \in DOMAIN Schema THEN MapSqlTypes(Schema[Expr])
  ELSE IF Contains(Expr, W("."))
    THEN ResolveExpression(After(Expr, W(".")), Schema)
  ELSE IF IndexMatch(Expr, <<"[", "'">>, <<"'", "]">>)
    THEN LET Col == IndexCol(Expr, <<"[", "'">>, <<"'", "]">>)
         IN IF Col \in DOMAIN Schema
            THEN MapValueType(MapSqlTypes(Schema[Col]))
            ELSE Unknown
  ELSE IF IndexMatch(Expr, <<"[", "\"">>, <<"\"", "]">>)
    THEN LET Col == IndexCol(Expr, <<"[", "\"">>, <<"\"", "]">>)
         IN IF Col \in DOMAIN Schema
            THEN MapValueType(MapSqlTypes(Schema[Col]))
            ELSE Unknown
  ELSE IF Wrapped(Expr, Call("cast"), W(")"))
    THEN LET Inner == Inside(Expr, Call("cast"), W(")"))
         IN IF Contains(Inner, Sp("as"))
            THEN MapSqlType(Trim(After(Inner, Sp("as"))))
            ELSE Unknown
  ELSE IF Wrapped(Expr, Call("count"), W(")")) THEN NumericString
  ELSE IF Wrapped(Expr, Call("sum"), W(")")) THEN NumericString
  ELSE IF Wrapped(Expr, Call("avg"), W(")")) THEN SmallInt
  ELSE IF Wrapped(Expr, Call("min"), W(")"))
    THEN ResolveExpression(Trim(Inside(Expr, Call("min"), W(")"))), Schema)
  ELSE IF Wrapped(Expr, Call("max"), W(")"))
    THEN ResolveExpression(Trim(Inside(Expr, Call("max"), W(")"))), Schema)
  ELSE Unknown

(***************************************************************************)
(* Text path: resolve                                                      *)
(***************************************************************************)

\* A & B on the members of two unions
MeetMembers(x, y) ==
  IF x = y THEN {x}
  ELSE IF {x.k, y.k} = {"numstr", "string"} THEN Prim("numstr")
  ELSE IF {x.k, y.k} = {"hex", "string"} THEN Prim("hex")
  ELSE IF {x.k, y.k} = {"numstr", "hex"} THEN Prim("numstr&hex")
  ELSE {}

\* A & B
TsIntersect(a, b) ==
  IF a = b THEN a
  ELSE IF a = Unknown THEN b
  ELSE IF b = Unknown THEN a
  ELSE UNION {MeetMembers(x, y) : x \in a, y \in b}

\* A row shape: the column types by alias; `open` marks the permissive
\* fallback Record<string, unknown>.
Row(cols) == [open |-> FALSE, cols |-> cols]

Fallback == [open |-> TRUE, cols |-> <<>>]

\* {a: A} & {b: B} & ... flattened (Prettify / Simplify): a key two operands
\* share gets the intersection of their types.
RowAnd(r1, r2) ==
  [a \in DOMAIN r1 \cup DOMAIN r2 |->
     IF a \in DOMAIN r1 /\ a \in DOMAIN r2 THEN TsIntersect(r1[a], r2[a])
     ELSE IF a \in DOMAIN r1 THEN r1[a]
     ELSE r2[a]]

RECURSIVE ResolveRowFrom(_, _, _)
ResolveRowFrom(Items, Schema, i) ==
  IF i > Len(Items) THEN <<>>
  ELSE RowAnd([a \in {Items[i].alias} |-> ResolveExpression(Items[i].expr, Schema)],
              ResolveRowFrom(Items, Schema, i + 1))

\* ResolveRow<Items, Schema>
ResolveRow(Items, Schema) == ResolveRowFrom(Items, Schema, 1)

FullRow(Schema) == [K \in DOMAIN Schema |-> MapSqlTypes(Schema[K])]

\* MergeSchemas keeping the type of A for a column that both schemas have
MergeSchemasLeft(A, B) ==
  [K \in DOMAIN A \cup DOMAIN B |-> IF K \in DOMAIN A THEN A[K] ELSE B[K]]

MergeSchemas(A, B) ==
  [K \in DOMAIN A \cup DOMAIN B |->
     IF K \in DOMAIN A
     THEN IF K \in DOMAIN B THEN A[K] \cup B[K] ELSE A[K]
     ELSE B[K]]

(***************************************************************************)
(* Text path: index (TypedQuery)                                           *)
(***************************************************************************)

ResolveSchema(S, TableName) ==
  IF HasJoin(S)
  THEN IF ExtractJoinedTableName(S) \in DOMAIN TableSchemas
       THEN MergeSchemas(TableSchemas[TableName],
                         TableSchemas[ExtractJoinedTableName(S)])
       ELSE TableSchemas[TableName]
  ELSE TableSchemas[TableName]

\* What indexing TableSchemas with a name that is no key of it gives: a type
\* error, no row.
TypeError == [open |-> FALSE, cols |-> [a \in {W("error")} |-> Prim("error")]]

\* InferRow without its two guards on the table name
InferRowUnguarded(S) ==
  IF ExtractTableName(S) \notin DOMAIN TableSchemas THEN TypeError
  ELSE LET Schema == ResolveSchema(S, ExtractTableName(S))
       IN IF ExtractSelectList(S) = NeverStr THEN Fallback
          ELSE IF IsSelectStar(ExtractSelectList(S)) THEN Row(FullRow(Schema))
          ELSE Row(ResolveRow(ParseSelectItems(ExtractSelectList(S)), Schema))

InferRow(S) ==
  IF ExtractTableName(S) = NeverStr THEN Fallback
  ELSE IF ExtractTableName(S) \in DOMAIN TableSchemas
    THEN LET Schema == ResolveSchema(S, ExtractTableName(S))
         IN IF ExtractSelectList(S) = NeverStr THEN Fallback
            ELSE IF IsSelectStar(ExtractSelectList(S)) THEN Row(FullRow(Schema))
            ELSE Row(ResolveRow(ParseSelectItems(ExtractSelectList(S)), Schema))
  ELSE Fallback

\* TypedQuery<SQL>['result'][number]
TypedQuery(SQL) == InferRow(Normalize(SQL))

(***************************************************************************)
(* builder/ast.ts: the syntax tree.  An optional string field that is      *)
(* undefined is Empty, which like '' is falsy; an undefined limit is <<>>  *)
(* and limit n is <<n>>.  A Value node keeps the text String(value) would  *)
(* give and the typeof tag that compileValue switches on.                  *)
(***************************************************************************)
ColumnNode(table, name) == [kind |-> "Column", table |-> table, name |-> name]

StarNode == [kind |-> "Star", table |-> Empty]

ValueNode(tag, value) == [kind |-> "Value", tag |-> tag, value |-> value]

MapAccessNode(column, key) == [kind |-> "MapAccess", column |-> column, key |-> key]

FunctionCallNode(name, args) == [kind |-> "FunctionCall", name |-> name, args |-> args]

BinaryOpNode(left, op, right) ==
  [kind |-> "BinaryOp", left |-> left, op |-> op, right |-> right]

AndNode(conditions) == [kind |-> "And", conditions |-> conditions]

OrNode(conditions) == [kind |-> "Or", conditions |-> conditions]

NotNode(expr) == [kind |-> "Not", expr |-> expr]

IsNullNode(expr, negated) == [kind |-> "IsNull", expr |-> expr, negated |-> negated]

AliasNode(expr, alias) == [kind |-> "Alias", expr |-> expr, alias |-> alias]

TableNode(name, alias) == [kind |-> "Table", name |-> name, alias |-> alias]

JoinNode(type, table, on) == [kind |-> "Join", type |-> type, table |-> table, on |-> on]

OrderByItemNode(expr, direction) ==
  [kind |-> "OrderByItem", expr |-> expr, direction |-> direction]

CteNode(name, query) == [kind |-> "Cte", name |-> name, query |-> query]

\* String(n) of a number
Num(n) == W(ToString(n))

(***************************************************************************)
(* builder/compiler.ts                                                     *)
(***************************************************************************)
Comma == <<",", " ">>

RECURSIVE compileNode(_), compileQueryReordered(_), compileQuery(_)

compileColumn(node) ==
  IF node.table # Empty THEN node.table \o W(".") \o node.name ELSE node.name

compileValue(node) ==
  CASE node.tag = "null" -> W("NULL")
    [] node.tag = "string" -> W("'") \o node.value \o W("'")
    [] node.tag = "boolean" -> node.value
    [] OTHER -> node.value

compileMapAccess(node) ==
  compileNode(node.column) \o <<"[", "'">> \o node.key \o <<"'", "]">>

compileFunctionCall(node) ==
  LET args == JoinWith([i \in 1..Len(node.args) |-> compileNode(node.args[i])], Comma)
  IN IF node.name = W("countDistinct")
     THEN <<"count", "(", "DISTINCT", " ">> \o args \o W(")")
     ELSE node.name \o W("(") \o args \o W(")")

compileBinaryOp(node) ==
  compileNode(node.left) \o W(" ") \o node.op \o W(" ") \o compileNode(node.right)

compileAnd(node) ==
  JoinWith([i \in 1..Len(node.conditions) |-> compileNode(node.conditions[i])],
           <<" ", "AND", " ">>)

compileOr(node) ==
  W("(")
  \o JoinWith([i \in 1..Len(node.conditions) |-> compileNode(node.conditions[i])],
              <<" ", "OR", " ">>)
  \o W(")")

compileAlias(node) == compileNode(node.expr) \o <<" ", "AS", " ">> \o node.alias

compileTable(node) ==
  IF node.alias # Empty THEN node.name \o <<" ", "AS", " ">> \o node.alias
  ELSE node.name

compileJoin(node) ==
  LET table == compileTable(node.table)
      on == IF node.on # Empty THEN <<" ", "ON", " ">> \o compileNode(node.on) ELSE Empty
  IN node.type \o <<" ", "JOIN", " ">> \o table \o on

compileOrderByItem(node) ==
  LET dir == IF node.direction # Empty THEN W(" ") \o node.direction ELSE Empty
  IN compileNode(node.expr) \o dir

compileCte(node) ==
  node.name \o <<" ", "AS", " ", "(">> \o compileQuery(node.query) \o W(")")

compileNode(node) ==
  CASE node.kind = "Column" -> compileColumn(node)
    [] node.kind = "Star" ->
         IF node.table # Empty THEN node.table \o <<".", "*">> ELSE W("*")
    [] node.kind = "Value" -> compileValue(node)
    [] node.kind = "MapAccess" -> compileMapAccess(node)
    [] node.kind = "FunctionCall" -> compileFunctionCall(node)
    [] node.kind = "BinaryOp" -> compileBinaryOp(node)
    [] node.kind = "And" -> compileAnd(node)
    [] node.kind = "Or" -> compileOr(node)
    [] node.kind = "Not" -> <<"NOT", " ">> \o compileNode(node.expr)
    [] node.kind = "IsNull" ->
         compileNode(node.expr) \o <<" ", "IS", " ">>
         \o (IF node.negated THEN <<"NOT", " ">> ELSE Empty) \o W("NULL")
    [] node.kind = "Alias" -> compileAlias(node)
    [] node.kind = "Table" -> compileTable(node)
    [] node.kind = "SelectQuery" -> W("(") \o compileQuery(node) \o W(")")
    [] node.kind = "OrderByItem" -> compileOrderByItem(node)
    [] node.kind = "Cte" -> compileCte(node)
    [] node.kind = "Join" -> compileJoin(node)

\* The parts of compileQuery, by clause
WithPart(node) ==
  IF Len(node.ctes) > 0
  THEN << <<"WITH", " ">>
          \o JoinWith([i \in 1..Len(node.ctes) |-> compileCte(node.ctes[i])], Comma) >>
  ELSE <<>>

SelectPart(node) ==
  LET distinct == IF node.distinct THEN <<"SELECT", " ", "DISTINCT">> ELSE W("SELECT")
      selections ==
        JoinWith([i \in 1..Len(node.selections) |-> compileNode(node.selections[i])],
                 Comma)
  IN << distinct \o W(" ") \o selections >>

FromPart(node) == << <<"FROM", " ">> \o compileTable(node.from) >>

JoinParts(node) == [i \in 1..Len(node.joins) |-> compileJoin(node.joins[i])]

WherePart(node) ==
  IF Len(node.where) > 0
  THEN << <<"WHERE", " ">>
          \o JoinWith([i \in 1..Len(node.where) |-> compileNode(node.where[i])],
                      <<" ", "AND", " ">>) >>
  ELSE <<>>

GroupByPart(node) ==
  IF Len(node.groupBy) > 0
  THEN << <<"GROUP", " ", "BY", " ">>
          \o JoinWith([i \in 1..Len(node.groupBy) |-> compileNode(node.groupBy[i])],
                      Comma) >>
  ELSE <<>>

HavingPart(node) ==
  IF Len(node.having) > 0
  THEN << <<"HAVING", " ">>
          \o JoinWith([i \in 1..Len(node.having) |-> compileNode(node.having[i])],
                      <<" ", "AND", " ">>) >>
  ELSE <<>>

OrderByPart(node) ==
  IF Len(node.orderBy) > 0
  THEN << <<"ORDER", " ", "BY", " ">>
          \o JoinWith([i \in 1..Len(node.orderBy) |-> compileOrderByItem(node.orderBy[i])],
                      Comma) >>
  ELSE <<>>

LimitPart(node) ==
  IF node.limit # <<>> THEN << <<"LIMIT", " ">> \o Num(node.limit[1]) >> ELSE <<>>

\* compileQuery pushing a part as soon as the builder filled it: the clauses
\* that filter and sort come before the joins and the grouping.
compileQueryReordered(node) ==
  JoinWith(WithPart(node) \o SelectPart(node) \o FromPart(node)
           \o WherePart(node) \o OrderByPart(node) \o LimitPart(node)
           \o JoinParts(node) \o GroupByPart(node) \o HavingPart(node),
           W(" "))

compileQuery(node) ==
  JoinWith(WithPart(node) \o SelectPart(node) \o FromPart(node) \o JoinParts(node)
           \o WherePart(node) \o GroupByPart(node) \o HavingPart(node)
           \o OrderByPart(node) \o LimitPart(node),
           W(" "))

(***************************************************************************)
(* builder/select-query-builder.ts: helpers                                *)
(***************************************************************************)

\* Position of the white space that starts the first match of \s+as\s+(.+)$
\* at or after i (the lazy (.+?) before it takes at least one character), or
\* 0.  "as" between white space is a lexeme of its own; the flag i makes it
\* match in any case.
RECURSIVE SkipSpace(_, _)
SkipSpace(s, i) ==
  IF i <= Len(s) /\ s[i] \in WhitespaceChar THEN SkipSpace(s, i + 1) ELSE i

RECURSIVE AsMatchFrom(_, _)
AsMatchFrom(s, i) ==
  IF i > Len(s) THEN 0
  ELSE IF s[i] \in WhitespaceChar
       THEN LET k == SkipSpace(s, i)
            IN IF /\ k + 2 <= Len(s)
                  /\ LowerTok(s[k]) = "as"
                  /\ s[k + 1] \in WhitespaceChar
               THEN i
               ELSE AsMatchFrom(s, i + 1)
       ELSE AsMatchFrom(s, i + 1)

AsMatch(s) == AsMatchFrom(s, 2)

AsMatchLeft(s) == Trim(SubSeq(s, 1, AsMatch(s) - 1))

AsMatchRight(s) ==
  Trim(SubSeq(s, SkipSpace(s, AsMatch(s)) + 1, Len(s)))

parseTableRef(str) ==
  IF AsMatch(str) > 0
  THEN [name |-> AsMatchLeft(str), alias |-> AsMatchRight(str)]
  ELSE [name |-> Trim(str), alias |-> Trim(str)]

RECURSIVE parseColumnRef(_)
parseColumnRef(str) ==
  IF AsMatch(str) > 0
  THEN AliasNode(parseColumnRef(AsMatchLeft(str)), AsMatchRight(str))
  ELSE LET dotIdx == Find(str, W("."))
       IN IF dotIdx > 1
          THEN ColumnNode(SubSeq(str, 1, dotIdx - 1), SubSeq(str, dotIdx + 1, Len(str)))
          ELSE ColumnNode(Empty, str)

createSelectNode(table) ==
  LET ref == parseTableRef(table)
  IN [kind |-> "SelectQuery",
      ctes |-> <<>>,
      distinct |-> FALSE,
      selections |-> <<>>,
      from |-> TableNode(ref.name, IF ref.alias # ref.name THEN ref.alias ELSE Empty),
      joins |-> <<>>,
      where |-> <<>>,
      groupBy |-> <<>>,
      having |-> <<>>,
      orderBy |-> <<>>,
      limit |-> <<>>]


(***************************************************************************)
(* builder/schema.ts and builder/types.ts: what the type parameters DB, TB *)
(* and O of a builder hold.  DB is CdpDatabase & {n1: R1} & {n2: R2} ...,  *)
(* kept as the sequence of the records {n: R} that with() and the aliased  *)
(* joins have intersected it with.                                         *)
(***************************************************************************)
MapSchema(S) == [K \in DOMAIN S |-> MapSqlTypes(S[K])]

\* { [T in keyof Schemas]: MapSchema<Schemas[T]> }
MapSchemas(Schemas) == [T \in DOMAIN Schemas |-> MapSchema(Schemas[T])]

CdpDatabase == MapSchemas(TableSchemas)

\* DB & { [K in N]: R }
DBAnd(ext, N, R) == Append(ext, [name |-> N, cols |-> R])

\* keyof DB
DBKeys(ext) == DOMAIN CdpDatabase \cup {ext[i].name : i \in 1..Len(ext)}

RECURSIVE DBExtRow(_, _, _)
DBExtRow(ext, T, i) ==
  IF i > Len(ext) THEN <<>>
  ELSE IF ext[i].name = T THEN RowAnd(ext[i].cols, DBExtRow(ext, T, i + 1))
  ELSE DBExtRow(ext, T, i + 1)

\* (Base & ext)[T]: the intersection of every record type that gives the key T
RowIn(Base, ext, T) ==
  IF T \in DOMAIN Base THEN RowAnd(Base[T], DBExtRow(ext, T, 1))
  ELSE DBExtRow(ext, T, 1)

\* DB[T]
DBRow(ext, T) == RowIn(CdpDatabase, ext, T)

\* DB[T] for the tables T of TB
DBRows(ext, TB) == [T \in TB |-> DBRow(ext, T)]

\* A union of types
UnionOf(types) == IF Unknown \in types THEN Unknown ELSE UNION types

Nullable(T) == [K \in DOMAIN T |-> TsUnion(T[K], Null)]

AnyColumn(ext, TB) == UNION {DOMAIN DBRow(ext, T) : T \in TB}

\* { [K in the columns of the rows]: the union of the types the rows give K }
Merged(Rows) ==
  [K \in UNION {DOMAIN Rows[T] : T \in DOMAIN Rows} |->
     UnionOf({Rows[T][K] : T \in {U \in DOMAIN Rows : K \in DOMAIN Rows[U]}})]

MergedColumns(ext, TB) == Merged(DBRows(ext, TB))

\* SelectionResult of one string literal S, given MergedColumns<DB, TB> and
\* DB[T] for the tables T of TB
SelectionResultIn(Columns, Rows, S) ==
  IF Contains(S, Sp("as"))
  THEN LET Column == Before(S, Sp("as"))
           Alias == After(S, Sp("as"))
       IN IF Column \in DOMAIN Columns
          THEN [K \in {Alias} |-> Columns[Column]]
          ELSE [K \in {Alias} |-> Unknown]
  ELSE IF Contains(S, W("."))
  THEN LET T == Before(S, W("."))
           Column == After(S, W("."))
       IN IF T \in DOMAIN Rows
          THEN IF Column \in DOMAIN Rows[T]
               THEN [K \in {Column} |-> Rows[T][Column]]
               ELSE <<>>
          ELSE <<>>
  ELSE IF S \in DOMAIN Columns
       THEN [K \in {S} |-> Columns[S]]
       ELSE <<>>

\* SelectionResult<DB, TB, S> of one string literal S
SelectionResult(ext, TB, S) ==
  SelectionResultIn(MergedColumns(ext, TB), DBRows(ext, TB), S)

RECURSIVE SelectionsResultFrom(_, _, _, _)
SelectionsResultFrom(ext, TB, Ss, i) ==
  IF i > Len(Ss) THEN <<>>
  ELSE RowAnd(SelectionResult(ext, TB, Ss[i]), SelectionsResultFrom(ext, TB, Ss, i + 1))

\* SelectionsResult<DB, TB, S> of a tuple S of string literals
SelectionsResult(ext, TB, Ss) == SelectionsResultFrom(ext, TB, Ss, 1)

\* Expr<T> and AliasedExpr<T, A>: the node and the phantom type
Expr(node, type) == [node |-> node, type |-> type]

\* Expr.as(alias)
as(expr, alias) ==
  [node |-> AliasNode(expr.node, alias), alias |-> alias, type |-> expr.type]

RECURSIVE UnpackAliasedFrom(_, _)
UnpackAliasedFrom(Selections, i) ==
  IF i > Len(Selections) THEN <<>>
  ELSE RowAnd([K \in {Selections[i].alias} |-> Selections[i].type],
              UnpackAliasedFrom(Selections, i + 1))

UnpackAliased(Selections) == UnpackAliasedFrom(Selections, 1)

(***************************************************************************)
(* builder/abi-types.ts.  A Solidity type name is written with the keyword *)
(* it begins with as its first lexeme: uint256 is <<"uint", "256">>,       *)
(* bytes32 is <<"bytes", "32">>, address[] is <<"address", "[", "]">>.     *)
(* The narrowing parameter Sig is the type string, or one string literal.  *)
(***************************************************************************)
StringSig == [any |-> TRUE, lit |-> Empty]

LiteralSig(s) == [any |-> FALSE, lit |-> s]

AbiParam(name, type) == [name |-> name, type |-> type]

AbiEvent(name, inputs) == [type |-> "event", name |-> name, inputs |-> inputs]

AbiFunction(name) == [type |-> "function", name |-> name, inputs |-> <<>>]

RECURSIVE JoinParamTypes(_, _)

FormatParamType(P) ==
  IF StartsWith(P.type, W("tuple")) /\ "components" \in DOMAIN P
  THEN W("(") \o JoinParamTypes(P.components, Empty) \o W(")")
       \o SubSeq(P.type, 2, Len(P.type))
  ELSE P.type

JoinParamTypes(Params, Result) ==
  IF Len(Params) = 0 THEN Result
  ELSE IF Result = Empty
       THEN JoinParamTypes(Tail(Params), FormatParamType(Head(Params)))
       ELSE JoinParamTypes(Tail(Params),
                           Result \o W(",") \o FormatParamType(Head(Params)))

CdpEventSignature(E) == E.name \o W("(") \o JoinParamTypes(E.inputs, Empty) \o W(")")

\* SolidityTypeToCdp without the branch of the signed integers
SolidityTypeToCdpUnsigned(T) ==
  IF T = W("address") THEN HexString
  ELSE IF T = W("bool") THEN Boolean
  ELSE IF StartsWith(T, W("uint")) THEN NumericString
  ELSE IF T = W("string") THEN PlainString
  ELSE IF StartsWith(T, W("bytes")) THEN HexString
  ELSE PlainString

SolidityTypeToCdp(T) ==
  IF T = W("address") THEN HexString
  ELSE IF T = W("bool") THEN Boolean
  ELSE IF StartsWith(T, W("uint")) THEN NumericString
  ELSE IF StartsWith(T, W("int")) THEN NumericString
  ELSE IF T = W("string") THEN PlainString
  ELSE IF StartsWith(T, W("bytes")) THEN HexString
  ELSE PlainString

ExtractEvents(A) == {A[i] : i \in {j \in 1..Len(A) : A[j].type = "event"}}

\* The union of the events whose computed signature is Sig
FindEventBySignature(A, Sig) ==
  {E \in ExtractEvents(A) : CdpEventSignature(E) = Sig.lit}

RECURSIVE FindParamByName(_, _)
\* The first parameter named Key, as a union: never when there is none
FindParamByName(Params, Key) ==
  IF Len(Params) = 0 THEN {}
  ELSE IF Head(Params).name = Key THEN {Head(Params)}
  ELSE FindParamByName(Tail(Params), Key)

\* EventParamType giving unknown for a key that the event has not
EventParamTypeStrict(A, Sig, Key) ==
  IF FindEventBySignature(A, Sig) = {} THEN Variant
  ELSE LET P == UNION {FindParamByName(E.inputs, Key) :
                         E \in FindEventBySignature(A, Sig)}
       IN IF P = {} THEN Unknown
          ELSE UnionOf({SolidityTypeToCdp(p.type) : p \in P})

EventParamType(A, Sig, Key) ==
  IF FindEventBySignature(A, Sig) = {} THEN Variant
  ELSE LET P == UNION {FindParamByName(E.inputs, Key) :
                         E \in FindEventBySignature(A, Sig)}
       IN IF P = {} THEN Variant
          ELSE UnionOf({SolidityTypeToCdp(p.type) : p \in P})

ResolveMapType(BaseType, A, Sig, Key) ==
  LET V == IF \E m \in BaseType : m.k # "record" THEN Unknown
           ELSE UNION {m.of : m \in BaseType}
  IN IF Sig.any THEN V
     ELSE IF A = <<>> THEN V
     ELSE EventParamType(A, Sig, Key)

(***************************************************************************)
(* builder/expression-builder.ts: an ExpressionBuilder<DB, TB, ABI, Sig>   *)
(* is the record eb of these four; its methods build Expr values.          *)
(***************************************************************************)
ExpressionBuilder(ext, TB, ABI, Sig) == [ext |-> ext, TB |-> TB, ABI |-> ABI, Sig |-> Sig]

col(eb, name) == Expr(ColumnNode(Empty, name), MergedColumns(eb.ext, eb.TB)[name])

map(eb, column, key) ==
  Expr(MapAccessNode(ColumnNode(Empty, column), key),
       ResolveMapType(MergedColumns(eb.ext, eb.TB)[column], eb.ABI, eb.Sig, key))

\* count() without an argument
count(eb) == Expr(FunctionCallNode(W("count"), <<StarNode>>), NumericString)

and(eb, conditions) ==
  Expr(AndNode([i \in 1..Len(conditions) |-> conditions[i].node]), Boolean)

or(eb, conditions) ==
  Expr(OrNode([i \in 1..Len(conditions) |-> conditions[i].node]), Boolean)

not(eb, expr) == Expr(NotNode(expr.node), Boolean)

isNull(eb, expr) == Expr(IsNullNode(expr.node, FALSE), Boolean)

\* The lexemes that have a character other than a letter, a digit and `_`
Symbols ==
  {" ", "\n", "\t", "\r", "'", "\"", "(", ")", "[", "]", ",", ";", "*", "=", ">",
   "<", "::", ":", "-", "%", "!"}

\* The lexemes of letters, digits and `_` that begin with a digit
DigitLed == {"0x1234", "0", "1", "5", "42", "1000"}

\* /^[a-zA-Z_][a-zA-Z0-9_.]*$/.test(value)
LooksLikeColumn(value) ==
  /\ Len(value) > 0
  /\ value[1] \notin Symbols \cup DigitLed \cup {"."}
  /\ \A k \in DOMAIN value : value[k] \notin Symbols

\* value.split('.').length === 2
TwoParts(value) == Cardinality({k \in DOMAIN value : value[k] = "."}) = 1

\* toNode(value) for a value that is no Expr: [tag, value] as in a Value node
toNode(v) ==
  IF v.tag = "string"
  THEN IF LooksLikeColumn(v.value)
       THEN IF TwoParts(v.value)
            THEN ColumnNode(Before(v.value, W(".")), After(v.value, W(".")))
            ELSE ColumnNode(Empty, v.value)
       ELSE IF v.value = W("*") THEN StarNode
       ELSE ValueNode("string", v.value)
  ELSE ValueNode(v.tag, v.value)

\* toNode taking every string for a value
toNodeValue(v) == ValueNode(v.tag, v.value)

eq(eb, left, right) == Expr(BinaryOpNode(left.node, W("="), toNode(right)), Boolean)

isNotNull(eb, expr) == Expr(IsNullNode(expr.node, TRUE), Boolean)

(***************************************************************************)
(* builder/select-query-builder.ts: SelectQueryBuilder<DB, TB, O, ABI,     *)
(* Sig>.  The builders that exist are the entries of a heap bs; a method   *)
(* called on entry i answers the heap with the builder it returns          *)
(* appended.  An entry holds #node and the five type parameters, and for   *)
(* the properties the creator it stems from, the builder it was made from  *)
(* (0 for selectFrom) and the calls that made it.                          *)
(*                                                                         *)
(* A callback argument is the list of the ExpressionBuilder calls it       *)
(* makes: [m |-> method, column |-> ..., key |-> ..., alias |-> ...].      *)
(***************************************************************************)

\* The Expr a callback gives that nests eb.and, eb.or and eb.not over
\* eb.isNull(eb.col(c)); t is the nesting: [op, c, args]
RECURSIVE Nested(_, _)
Nested(eb, t) ==
  CASE t.op = "isNull" -> isNull(eb, col(eb, t.c))
    [] t.op = "not" -> not(eb, Nested(eb, t.args[1]))
    [] t.op = "and" -> and(eb, [k \in DOMAIN t.args |-> Nested(eb, t.args[k])])
    [] t.op = "or" -> or(eb, [k \in DOMAIN t.args |-> Nested(eb, t.args[k])])

\* The columns the nesting t names
RECURSIVE NestedColumns(_)
NestedColumns(t) ==
  IF t.op = "isNull" THEN {t.c}
  ELSE UNION {NestedColumns(t.args[k]) : k \in DOMAIN t.args}

\* The Expr one ExpressionBuilder call of a callback gives, c being what
\* eb.col gives for its column and k for its second column
CallOn(eb, r, c, k) ==
  CASE r.m = "map" -> map(eb, r.column, r.key)
    [] r.m = "col" -> c
    [] r.m = "count" -> count(eb)
    [] r.m = "isNull" -> isNull(eb, c)
    [] r.m = "isNotNull" -> isNotNull(eb, c)
    [] r.m = "or" -> or(eb, <<isNull(eb, c), isNotNull(eb, k)>>)
    [] r.m = "and" -> and(eb, <<isNull(eb, c), isNotNull(eb, k)>>)
    [] r.m = "eq" -> eq(eb, c, [tag |-> "string", value |-> r.key])
    [] r.m = "nested" -> Nested(eb, r.key)

\* The Expr one ExpressionBuilder call of a callback gives
Call1(eb, r) == CallOn(eb, r, col(eb, r.column), col(eb, r.key))

\* The columns a callback names, which col() and map() want in scope
CallColumns(r) ==
  CASE r.m \in {"map", "col", "isNull", "isNotNull", "eq"} -> {r.column}
    [] r.m \in {"or", "and"} -> {r.column, r.key}
    [] r.m = "nested" -> NestedColumns(r.key)
    [] OTHER -> {}

\* (eb) => [ ... .as(alias), ... ]
Callback(eb, fn) == [k \in 1..Len(fn) |-> as(Call1(eb, fn[k]), fn[k].alias)]

ebOf(this) == ExpressionBuilder(this.ext, this.TB, this.ABI, this.Sig)

\* select() appending the new selections to the array of the builder it was
\* called on, which the returned builder then shares
selectPush(bs, i, arg) ==
  LET this == bs[i]
      newSelections ==
        CASE arg.form = "callback" ->
               [k \in 1..Len(arg.fn) |-> Callback(ebOf(this), arg.fn)[k].node]
          [] arg.form = "array" ->
               [k \in 1..Len(arg.columns) |-> parseColumnRef(arg.columns[k])]
          [] arg.form = "string" -> <<parseColumnRef(arg.column)>>
      pushed == [this EXCEPT !.node.selections = @ \o newSelections]
  IN Append([bs EXCEPT ![i] = pushed], pushed)

\* select(), exprs being what the callback answers when arg is one
selectOf(bs, i, arg, exprs) ==
  LET this == bs[i]
      newSelections ==
        CASE arg.form = "callback" -> [k \in 1..Len(exprs) |-> exprs[k].node]
          [] arg.form = "array" ->
               [k \in 1..Len(arg.columns) |-> parseColumnRef(arg.columns[k])]
          [] arg.form = "string" -> <<parseColumnRef(arg.column)>>
      result ==
        CASE arg.form = "callback" -> UnpackAliased(exprs)
          [] arg.form = "array" -> SelectionsResult(this.ext, this.TB, arg.columns)
          [] arg.form = "string" -> SelectionResult(this.ext, this.TB, arg.column)
  IN Append(bs, [this EXCEPT !.node.selections = @ \o newSelections,
                             !.O = RowAnd(@, result)])

select(bs, i, arg) == selectOf(bs, i, arg, Callback(ebOf(bs[i]), arg.fn))

selectAll(bs, i) ==
  LET this == bs[i]
  IN Append(bs, [this EXCEPT !.node.selections = <<StarNode>>,
                             !.O = MergedColumns(this.ext, this.TB)])

distinct(bs, i) == Append(bs, [bs[i] EXCEPT !.node.distinct = TRUE])

\* The condition of where() and having(): value is [tag, value] as in a
\* Value node
Condition(this, arg, op, value) ==
  IF arg.form = "callback" THEN Call1(ebOf(this), arg.fn).node
  ELSE BinaryOpNode(parseColumnRef(arg.column), op, ValueNode(value.tag, value.value))

\* where() putting its condition before the conditions the builder has
whereUnshift(bs, i, arg, op, value) ==
  LET this == bs[i]
      narrows == /\ arg.form = "string"
                 /\ arg.column = W("event_signature")
                 /\ op = W("=")
                 /\ value.tag = "string"
  IN Append(bs, [this EXCEPT !.node.where = <<Condition(this, arg, op, value)>> \o @,
                             !.Sig = IF narrows THEN LiteralSig(value.value) ELSE @])

where(bs, i, arg, op, value) ==
  LET this == bs[i]
      narrows == /\ arg.form = "string"
                 /\ arg.column = W("event_signature")
                 /\ op = W("=")
                 /\ value.tag = "string"
  IN Append(bs, [this EXCEPT !.node.where = Append(@, Condition(this, arg, op, value)),
                             !.Sig = IF narrows THEN LiteralSig(value.value) ELSE @])

addJoin(this, type, tableStr, leftCol, op, rightCol) ==
  LET ref == parseTableRef(tableStr)
      joinNode ==
        JoinNode(type,
                 TableNode(ref.name, IF ref.alias # ref.name THEN ref.alias ELSE Empty),
                 BinaryOpNode(parseColumnRef(leftCol), op, parseColumnRef(rightCol)))
  IN [this EXCEPT !.node.joins = Append(@, joinNode)]

\* The second overload: `${T2} as ${A}` with T2 a key of DB
IsAliased(this, table) ==
  /\ table \notin DBKeys(this.ext)
  /\ Contains(table, Sp("as"))
  /\ Before(table, Sp("as")) \in DBKeys(this.ext)

innerJoin(bs, i, table, leftCol, op, rightCol) ==
  LET this == bs[i]
      joined == addJoin(this, W("INNER"), table, leftCol, op, rightCol)
      T2 == Before(table, Sp("as"))
      A == After(table, Sp("as"))
  IN IF IsAliased(this, table)
     THEN Append(bs, [joined EXCEPT !.ext = DBAnd(@, A, DBRow(this.ext, T2)),
                                    !.TB = @ \cup {A}])
     ELSE Append(bs, [joined EXCEPT !.TB = @ \cup {table}])

leftJoin(bs, i, table, leftCol, op, rightCol) ==
  LET this == bs[i]
      joined == addJoin(this, W("LEFT"), table, leftCol, op, rightCol)
      T2 == Before(table, Sp("as"))
      A == After(table, Sp("as"))
  IN IF IsAliased(this, table)
     THEN Append(bs, [joined EXCEPT !.ext = DBAnd(@, A, Nullable(DBRow(this.ext, T2))),
                                    !.TB = @ \cup {A}])
     ELSE Append(bs, [joined EXCEPT !.TB = @ \cup {table}])

rightJoin(bs, i, table, leftCol, op, rightCol) ==
  Append(bs, [addJoin(bs[i], W("RIGHT"), table, leftCol, op, rightCol)
                EXCEPT !.TB = @ \cup {table}])

fullJoin(bs, i, table, leftCol, op, rightCol) ==
  Append(bs, [addJoin(bs[i], W("FULL"), table, leftCol, op, rightCol)
                EXCEPT !.TB = @ \cup {table}])

groupBy(bs, i, arg) ==
  LET this == bs[i]
      nodes ==
        CASE arg.form = "callback" ->
               [k \in 1..Len(arg.fn) |-> Call1(ebOf(this), arg.fn[k]).node]
          [] arg.form = "array" ->
               [k \in 1..Len(arg.columns) |-> parseColumnRef(arg.columns[k])]
          [] arg.form = "string" -> <<parseColumnRef(arg.column)>>
  IN Append(bs, [this EXCEPT !.node.groupBy = @ \o nodes])

having(bs, i, arg, op, value) ==
  LET this == bs[i]
  IN Append(bs, [this EXCEPT !.node.having = Append(@, Condition(this, arg, op, value))])

\* orderBy() answering a builder whose Sig is string again
orderByWidens(bs, i, column, direction) ==
  LET item == OrderByItemNode(parseColumnRef(column), toUpperCase(direction))
  IN Append(bs, [bs[i] EXCEPT !.node.orderBy = Append(@, item), !.Sig = StringSig])

orderBy(bs, i, column, direction) ==
  LET item == OrderByItemNode(parseColumnRef(column), toUpperCase(direction))
  IN Append(bs, [bs[i] EXCEPT !.node.orderBy = Append(@, item)])

limit(bs, i, n) == Append(bs, [bs[i] EXCEPT !.node.limit = <<n>>])

compile(this) == [sql |-> compileQuery(this.node), O |-> this.O]

(***************************************************************************)
(* builder/cdp.ts: CdpQueryCreator<DB, ABI>.  The creators that exist are  *)
(* the entries of a heap cs; an entry holds #ctes, DB and ABI, and for the  *)
(* properties the creator with() was called on (0 for a creator made       *)
(* otherwise) with the name and the callback it was given.                 *)
(*                                                                         *)
(* A callback of with() is qb => qb.selectFrom(table).select(arg), held as *)
(* [table |-> ..., arg |-> ...].                                           *)
(***************************************************************************)
CdpQueryCreator(ctes, ext, ABI) ==
  [ctes |-> ctes, ext |-> ext, ABI |-> ABI, parent |-> 0, name |-> Empty, fn |-> <<>>]

\* The singleton of the module
cdp == CdpQueryCreator(<<>>, <<>>, <<>>)

selectFrom(cs, bs, c, table) ==
  Append(bs, [node |-> [createSelectNode(table) EXCEPT !.ctes = cs[c].ctes],
              ext |-> cs[c].ext,
              TB |-> {table},
              O |-> <<>>,
              ABI |-> cs[c].ABI,
              Sig |-> StringSig,
              creator |-> c,
              parent |-> 0,
              calls |-> <<>>])

RECURSIVE with(_, _, _, _)

\* The builder the chain qb.selectFrom(table).select(arg) gives on the last
\* creator of qbs
BodyBuilder(qbs, fn) ==
  select(selectFrom(qbs, <<>>, Len(qbs), fn.table), 1, fn.arg)[2]

\* callback(innerQb): the builder a callback of with() answers; the callback
\* is qb => qb.selectFrom(table).select(arg), or
\* qb => qb.with(name, body).selectFrom(table).select(arg) when it has an
\* inner with
CallbackBuilder(innerQb, fn) ==
  IF fn.inner = <<>> THEN BodyBuilder(<<innerQb>>, fn)
  ELSE BodyBuilder(with(<<innerQb>>, 1, fn.inner[1].name, fn.inner[1].body), fn)

\* The creator with() answers, given the builder its callback answered
withBuilder(cs, c, name, builder) ==
  LET cteNode == CteNode(name, [builder.node EXCEPT !.ctes = <<>>])
  IN Append(cs, CdpQueryCreator(Append(cs[c].ctes, cteNode),
                                DBAnd(cs[c].ext, name, builder.O),
                                cs[c].ABI))

with(cs, c, name, callback) ==
  LET innerQb == CdpQueryCreator(<<>>, cs[c].ext, cs[c].ABI)
  IN withBuilder(cs, c, name, CallbackBuilder(innerQb, callback))

makeCdpQueryCreator(cs, abi) == Append(cs, CdpQueryCreator(<<>>, <<>>, abi))

(***************************************************************************)
(* Text path: the inputs TypedQuery is applied to                          *)
(***************************************************************************)

TableNames == DOMAIN TableSchemas

Kw(t) == <<" ", t, " ">>

\* The optional clauses that may follow the FROM target, in SQL order.
TailClause(k, c) ==
  CASE k = 1 -> <<" ", "WHERE", " ">> \o c \o <<" ", ">", " ", "1000">>
    [] k = 2 -> <<" ", "GROUP", " ", "BY", " ">> \o c
    [] k = 3 -> <<" ", "ORDER", " ", "BY", " ">> \o c \o <<" ", "DESC">>
    [] k = 4 -> <<" ", "LIMIT", " ", "10">>

TailKinds == 1..4

RECURSIVE TailText(_, _, _)
\* The clauses of the set ks, in SQL order
TailText(ks, c, k) ==
  IF k > 4 THEN Empty
  ELSE (IF k \in ks THEN TailClause(k, c) ELSE Empty) \o TailText(ks, c, k + 1)

\* SELECT <c> FROM <T> [WHERE ..] [GROUP BY ..] [ORDER BY ..] [LIMIT ..]
ColumnQuery(T, c, ks) ==
  <<"SELECT", " ">> \o c \o <<" ", "FROM", " ">> \o T \o TailText(ks, c, 1)

ColumnInputs ==
  {[kind |-> "column", table |-> T, form |-> "none", arg |-> Empty, join |-> Empty, col |-> c, tail |-> ks,
    text |-> ColumnQuery(T, c, ks)] :
     T \in TableNames, c \in UNION {DOMAIN TableSchemas[T2] : T2 \in TableNames},
     ks \in SUBSET TailKinds}

Txt(kind, text) ==
  [kind |-> kind, table |-> Empty, form |-> "none", arg |-> Empty, join |-> Empty,
   col |-> Empty, tail |-> {}, text |-> text]

Blocks == BaseName("blocks")
Events == BaseName("events")
Transactions == BaseName("transactions")

Col(c) == W(c)

Dot(t, c) == <<t, ".", c>>

\* Statements in which one stage of the pipeline finds nothing to match.
FailingInputs ==
  { Txt("empty", Empty),
    Txt("nonsense", <<"some", " ", "nonsense">>),
    Txt("nofrom", <<"SELECT", " ", "1">>),
    Txt("nofrom", <<"SELECT", " ", "block_number">>),
    Txt("unknowntable",
        <<"SELECT", " ", "col", " ", "FROM", " ", "unknown_table">>),
    Txt("unknowntable",
        <<"SELECT", " ", "block_number", " ", "FROM", " ", "base", ".",
          "unknown", " ", "LIMIT", " ", "10">>),
    Txt("noselect",
        <<"DELETE", " ", "x", " ", "FROM", " ", "base", ".", "blocks">>),
    Txt("noselect", <<"x", " ", "FROM", " ", "blocks">>),
    Txt("unknownjoin",
        <<"SELECT", " ", "b", ".", "block_number", ",", " ", "u", ".", "x",
          " ", "FROM", " ">> \o Blocks \o
        <<" ", "b", " ", "JOIN", " ", "unknown_table", " ", "u", " ", "ON",
          " ", "b", ".", "block_number", " ", "=", " ", "u", ".", "x">>),
    Txt("unknownjoin",
        <<"SELECT", " ", "miner", " ", "FROM", " ", "blocks", " ", "LEFT",
          " ", "JOIN", " ", "base", ".", "nothing", " ", "ON", " ", "a",
          " ", "=", " ", "b">>) }

\* Two-table joins of catalog tables
JoinQuery(A, B, x, y) ==
  <<"SELECT", " ", "a", ".">> \o x \o <<",", " ", "b", ".">> \o y
    \o <<" ", "FROM", " ">> \o A \o <<" ", "a", " ", "JOIN", " ">> \o B
    \o <<" ", "b", " ", "ON", " ", "a", ".", "block_number", " ", "=", " ",
         "b", ".", "block_number">>

JoinInputs ==
  { Txt("join", JoinQuery(Blocks, Transactions, Col("miner"),
                          Col("transaction_hash"))),
    Txt("join", JoinQuery(Transactions, Events, Col("block_number"),
                          Col("event_name"))),
    Txt("join", JoinQuery(W("transfers"), W("transactions"), Col("value"),
                          Col("value"))) }

\* SELECT * FROM <A> a JOIN <B> b ON a.block_number = b.block_number
JoinStarQuery(A, B) ==
  <<"SELECT", " ", "*", " ", "FROM", " ">> \o A \o <<" ", "a", " ", "JOIN", " ">> \o B
    \o <<" ", "b", " ", "ON", " ", "a", ".", "block_number", " ", "=", " ",
         "b", ".", "block_number">>

JoinStarInputs ==
  {[kind |-> "joinstar", table |-> A, form |-> "none", arg |-> Empty, join |-> B, col |-> W("*"), tail |-> {},
    text |-> JoinStarQuery(A, B)] : A \in TableNames, B \in TableNames}

\* SELECT <list> FROM <T>
ListQuery(list, T) == <<"SELECT", " ">> \o list \o <<" ", "FROM", " ">> \o T

\* Select lists with an item that is exactly `*`
StarLists ==
  { W("*"),
    <<"DISTINCT", " ", "*">>,
    <<"*", ",", " ", "miner">>,
    <<"block_number", ",", " ", "*">>,
    <<"miner", ",", " ", "*", ",", " ", "block_number">> }

StarInputs ==
  {[kind |-> "star", table |-> T, form |-> "none", arg |-> Empty, join |-> Empty, col |-> list, tail |-> {},
    text |-> ListQuery(list, T)] : T \in TableNames, list \in StarLists}

\* cast(<e> as <T>)
Cast(e, T) == <<"CAST", "(">> \o e \o <<" ", "AS", " ">> \o T \o W(")")

\* <e> AS <a>
As(e, a) == e \o <<" ", "AS", " ">> \o a

\* <f>(<e>)
Fn(f, e) == <<f, "(">> \o e \o W(")")

\* Select items with and without an alias, with and without a cast
AliasItems ==
  { Col("miner"),
    As(Col("block_number"), W("num")),
    Cast(Col("value"), W("uint64")),
    As(Cast(Col("value"), W("uint64")), W("val")),
    As(Cast(Col("block_number"), W("String")), W("block_str")),
    Fn("max", Cast(Col("gas_used"), W("uint64"))),
    As(Fn("max", Cast(Col("gas_used"), W("uint64"))), W("m")),
    Fn("count", W("*")) }

\* <col>['<key>'] and <col>["<key>"]
Index(column, key) == column \o <<"[", "'">> \o key \o <<"'", "]">>

IndexDq(column, key) == column \o <<"[", "\"">> \o key \o <<"\"", "]">>

\* t.<e>
Qualified(e) == <<"t", ".">> \o e

\* Select items without an alias
BareItems ==
  { Qualified(Col("miner")),
    Qualified(Col("block_number")),
    Index(Col("parameters"), W("from")),
    Qualified(Index(Col("parameters"), W("from"))),
    Fn("count", Qualified(Col("block_number"))),
    Qualified(Col("nothing")) }

Items == AliasItems \cup BareItems

\* SELECT <item> FROM <T> t
ItemQuery(item, T) == ListQuery(item, T \o <<" ", "t">>)

ItemInputs ==
  {[kind |-> "item", table |-> T, form |-> "none", arg |-> Empty, join |-> Empty, col |-> item, tail |-> {},
    text |-> ItemQuery(item, T)] :
     T \in {Blocks, Events, W("transfers")}, item \in Items}

\* <e>::<T>
Colons(e, T) == e \o W("::") \o T

\* The expressions the functions and casts below are applied to
Operands ==
  { Col("value"),
    Col("block_number"),
    Qualified(Col("value")),
    Index(Col("parameters"), W("from")),
    Qualified(Index(Col("parameters"), W("from"))) }

\* SELECT cast(<e> as <T>) AS v FROM <Tb> t, SELECT <e>::<T> AS v FROM <Tb> t
CastInputs ==
  {[kind |-> "cast", table |-> Tb, form |-> form, arg |-> T, join |-> Empty,
    col |-> e, tail |-> {},
    text |-> ItemQuery(As(IF form = "cast" THEN Cast(e, T) ELSE Colons(e, T), W("v")),
                       Tb)] :
     Tb \in {Events, W("transfers")}, form \in {"cast", "colons"}, e \in Operands,
     T \in {tUint64, tUint256, tString, tHex, tBool}}

Aggregates == {"count", "sum", "avg", "min", "max"}

\* SELECT <f>(<e>) AS v FROM <Tb> t
AggregateInputs ==
  {[kind |-> "aggregate", table |-> Tb, form |-> f, arg |-> Empty, join |-> Empty,
    col |-> e, tail |-> {}, text |-> ItemQuery(As(Fn(f, e), W("v")), Tb)] :
     Tb \in {Events, W("transfers")}, f \in Aggregates,
     e \in Operands \cup {W("*"), Col("log_index")}}

Keys == {W("from"), W("Value"), <<"token", ".", "id">>, <<"a", " ", "b">>}

IndexedColumns ==
  {Col("parameters"), Col("parameter_types"), Col("event_name"), Col("topics"),
   Col("nothing")}

\* SELECT [t.]<col>['<key>'] AS v FROM base.events t
IndexInputs ==
  {[kind |-> "index", table |-> Events, form |-> q, arg |-> key, join |-> t,
    col |-> c, tail |-> {},
    text |-> ItemQuery(As((IF t = Empty THEN Empty ELSE <<"t", ".">>)
                            \o (IF q = "single" THEN Index(c, key)
                                                ELSE IndexDq(c, key)),
                          W("v")), Events)] :
     q \in {"single", "double"}, key \in Keys, t \in {Empty, W("t")},
     c \in IndexedColumns}

\* (SELECT <c> FROM <T>)
Subquery(c, T) == W("(") \o ListQuery(c, T) \o W(")")

\* Statements with a feature the text path does not support: a CTE, a
\* subquery (as the FROM target, as a select item, in the WHERE clause), a
\* UNION.
Unsupported(f, c, T, U) ==
  CASE f = "with" ->
         <<"WITH", " ", "x", " ", "AS", " ">> \o Subquery(c, T) \o W(" ")
           \o ListQuery(c, W("x"))
    [] f = "from" -> ListQuery(c, Subquery(c, T) \o <<" ", "s">>)
    [] f = "item" ->
         ListQuery(As(Subquery(Fn("count", W("*")), T), W("n")), U)
    [] f = "where" ->
         ListQuery(c, U) \o <<" ", "WHERE", " ", "block_number", " ", "IN", " ">>
           \o Subquery(Col("block_number"), T)
    [] f = "union" ->
         ListQuery(c, T) \o <<" ", "UNION", " ">> \o ListQuery(Col("log_index"), U)
    [] f = "union all" ->
         ListQuery(c, T) \o <<" ", "UNION", " ", "ALL", " ">>
           \o ListQuery(Col("log_index"), U)

UnsupportedInputs ==
  {[kind |-> "unsupported", table |-> T, form |-> f, arg |-> Empty, join |-> U,
    col |-> c, tail |-> {}, text |-> Unsupported(f, c, T, U)] :
     f \in {"with", "from", "item", "where", "union", "union all"},
     c \in {Col("block_number"), W("*")}, T \in TableNames,
     U \in {Events, W("transfers")}}

AliasedColumns ==
  {Col("block_number"), Col("miner"), Col("total_difficulty"), Col("action"),
   Col("nothing"), Fn("count", W("*"))}

\* SELECT <e1> AS a, <e2> AS a FROM base.blocks
CollisionInputs ==
  {[kind |-> "collision", table |-> Blocks, form |-> "none", arg |-> e2,
    join |-> Empty, col |-> e1, tail |-> {},
    text |-> ListQuery(As(e1, W("a")) \o <<",", " ">> \o As(e2, W("a")), Blocks)] :
     e1 \in AliasedColumns, e2 \in AliasedColumns}

\* The longest run of white space and semicolons put around a statement
MaxMarks == 3

Marks == {" ", "\n", ";"}

Runs == UNION {[1..n -> Marks] : n \in 0..MaxMarks}

Statements ==
  { ListQuery(Col("miner"), Blocks),
    <<"Select", "\n", " ", " ", "miner", "\t", "FROM", " ", " ", " ">> \o Blocks
      \o <<"\r", "\n", "LIMIT", " ", "5">> }

\* A statement with white space in front of it and white space and semicolons
\* after it
RawInputs ==
  {[kind |-> "raw", table |-> Blocks, form |-> "none", arg |-> after,
    join |-> Empty, col |-> before, tail |-> {}, text |-> before \o S \o after] :
     before \in {Empty, W(" "), <<"\n", "\t">>}, S \in Statements, after \in Runs}

\* Statements written with upper-case keywords and single spaces
PlainStatements ==
  { ListQuery(Col("block_number"), Blocks)
      \o <<" ", "WHERE", " ", "block_number", " ", ">", " ", "0", " ", "LIMIT", " ", "1">>,
    ListQuery(<<"DISTINCT", " ", "miner">>, Blocks),
    ListQuery(As(Col("block_number"), W("num")) \o <<",", " ", "miner">>, Blocks),
    ListQuery(As(Cast(Col("value"), W("uint64")), W("val")), W("transfers")),
    ListQuery(Dot("b", "block_number") \o <<",", " ">> \o Dot("e", "event_name"),
              Blocks \o <<" ", "b", " ", "JOIN", " ">> \o Events
                \o <<" ", "e", " ", "ON", " ", "b", ".", "block_number", " ", "=",
                     " ", "e", ".", "block_number">>),
    ListQuery(W("*"), Events),
    ListQuery(Col("col"), W("unknown_table")) }

CapitalPairs == {<<"SELECT", "Select">>, <<"FROM", "From">>, <<"WHERE", "Where">>}

\* The keywords of s in another letter case
Recase(s, mode) ==
  CASE mode = "upper" -> s
    [] mode = "lower" -> [i \in 1..Len(s) |-> LowerTok(s[i])]
    [] mode = "capital" ->
         [i \in 1..Len(s) |->
            IF \E p \in CapitalPairs : p[1] = s[i]
            THEN (CHOOSE p \in CapitalPairs : p[1] = s[i])[2]
            ELSE s[i]]

\* The number of spaces among the first i lexemes of s
SpacesUpTo(s, i) == Cardinality({j \in 1..i : s[j] = " "})

\* s with its k-th space replaced by the run r; every space when k = 0
RECURSIVE StretchFrom(_, _, _, _)
StretchFrom(s, r, k, i) ==
  IF i > Len(s) THEN Empty
  ELSE (IF s[i] = " " /\ (k = 0 \/ SpacesUpTo(s, i) = k) THEN r ELSE W(s[i]))
         \o StretchFrom(s, r, k, i + 1)

Stretch(s, r, k) == StretchFrom(s, r, k, 1)

WhitespaceRuns ==
  {W(" "), <<" ", " ", " ">>, W("\n"), W("\t"), <<"\r", "\n">>,
   <<"\n", " ", " ">>}

\* A plain statement rewritten in ways that keep its normalized text
VariantInputs ==
  {[kind |-> "variant", table |-> Empty, form |-> mode, arg |-> r, join |-> Empty,
    col |-> S, tail |-> {},
    text |-> before \o Stretch(Recase(S, mode), r, k) \o semi \o after] :
     S \in PlainStatements, mode \in {"upper", "lower", "capital"},
     r \in WhitespaceRuns, k \in {0, 1, 3},
     before \in {Empty, <<" ", "\n">>}, semi \in {Empty, W(";"), <<" ", ";">>},
     after \in {Empty, <<"\t", " ">>}}

\* Function calls that have the word FROM between their parentheses
FromCalls ==
  { Fn("extract", <<"year", " ", "FROM", " ", "timestamp">>),
    Fn("substring", <<"miner", " ", "FROM", " ", "3">>),
    Fn("trim", <<"BOTH", " ", "'", "0", "'", " ", "FROM", " ", "miner">>) }

\* SELECT <call> AS y FROM <T> [b] [WHERE ...]
FromCallInputs ==
  {[kind |-> "fromcall", table |-> T, form |-> "none", arg |-> Empty, join |-> Empty,
    col |-> call, tail |-> {},
    text |-> ListQuery(As(call, W("y")), T) \o rest] :
     call \in FromCalls, T \in {Blocks, W("blocks")},
     rest \in {Empty, <<" ", "b">>,
               <<" ", "WHERE", " ", "block_number", " ", ">", " ", "0">>}}

TextInputs ==
  ColumnInputs \cup FailingInputs \cup JoinInputs \cup JoinStarInputs \cup StarInputs
    \cup ItemInputs \cup CastInputs \cup AggregateInputs \cup IndexInputs
    \cup UnsupportedInputs \cup CollisionInputs \cup RawInputs \cup VariantInputs
    \cup FromCallInputs

(***************************************************************************)
(* Text path: the pipeline as steps                                        *)
(***************************************************************************)

NoQuery == Txt("none", Empty)

TextIdle == [pc |-> "idle", norm |-> Empty, out |-> Fallback]

InitText ==
  /\ sql \in TextInputs
  /\ tq = [pc |-> "input", norm |-> Empty, out |-> Fallback]
  /\ creators = <<cdp>>
  /\ builders = <<>>

\* TypedQuery<SQL>: Normalize<SQL> ...
NormalizeStep ==
  /\ tq.pc = "input"
  /\ tq' = [tq EXCEPT !.pc = "normalized", !.norm = Normalize(sql.text)]
  /\ UNCHANGED <<sql, creators, builders>>

\* ... then InferRow on the normalized text
InferStep ==
  /\ tq.pc = "normalized"
  /\ tq' = [tq EXCEPT !.pc = "done", !.out = InferRow(tq.norm)]
  /\ UNCHANGED <<sql, creators, builders>>

NextText == NormalizeStep \/ InferStep

SpecText == InitText /\ [][NextText]_vars

(***************************************************************************)
(* Text path: properties                                                   *)
(***************************************************************************)

\* The response type the catalog gives a column of each SQL type: integers of
\* 64 and 256 bits as decimal strings, hashes and addresses as hex strings,
\* text and timestamps as strings, small integers as numbers.
CatalogResponseType(T) ==
  CASE T \in {tUint64, tUint256} -> NumericString
    [] T = tHex -> HexString
    [] T \in {tString, tDateTime, tDateTime64} -> PlainString
    [] T = tBool -> Boolean
    [] T \in {tInt8, tUint32} -> SmallInt
    [] T = tArrayHex -> ArrayOf(HexString)
    [] T = tParameters -> RecordOf(Variant)
    [] T = tParameterTypes -> RecordOf(PlainString)

CatalogType(T, c) ==
  CatalogResponseType(CHOOSE t \in TableSchemas[T][c] : TRUE)

\* base.<table> <-> <table>
OtherForm(T) == IF Len(T) = 1 THEN BaseName(T[1]) ELSE W(T[Len(T)])

Done == tq.pc = "done"

\* C4: `SELECT c FROM T` resolves, for every catalog table T in either name
\* form and every column c of T, to the row with the single key c typed by
\* the catalog's type for c; the other name form gives the same row, and so
\* does the query without its WHERE, GROUP BY, ORDER BY and LIMIT clauses.
C4_ColumnRow ==
  (Done /\ sql.kind = "column" /\ sql.col \in DOMAIN TableSchemas[sql.table])
    => /\ tq.out = Row([a \in {sql.col} |-> CatalogType(sql.table, sql.col)])
       /\ tq.out = TypedQuery(ColumnQuery(OtherForm(sql.table), sql.col, sql.tail))
       /\ tq.out = TypedQuery(ColumnQuery(sql.table, sql.col, {}))

C4_Witness ==
  /\ Done
  /\ sql.kind = "column"
  /\ sql.table = W("events")
  /\ sql.col = W("parameters")
  /\ sql.tail = TailKinds
  /\ tq.out = Row([a \in {W("parameters")} |-> RecordOf(Variant)])

TypeKinds ==
  {"numstr", "hex", "string", "boolean", "number", "null", "unknown",
   "numstr&hex", "array", "record"}

RECURSIVE IsType(_)
IsType(t) ==
  \A m \in t :
    /\ m.k \in TypeKinds
    /\ IF m.k \in {"array", "record"} THEN IsType(m.of) ELSE m.of = {}

IsRowShape(r) == ~r.open /\ \A a \in DOMAIN r.cols : IsType(r.cols[a])

\* C5: resolution is total: every input, the empty string, text that is no
\* SQL, a SELECT without FROM and a FROM of an unknown table included, ends
\* in a row shape or in the permissive fallback, never in an error.
C5_Total == Done => (tq.out = Fallback \/ IsRowShape(tq.out))

C5_Witness ==
  /\ Done
  /\ sql.kind \in {"empty", "nonsense", "nofrom", "unknowntable"}
  /\ tq.out = Fallback

\* A stage of the pipeline that finds nothing to match in the normalized text
StageFails(S) ==
  \/ ExtractTableName(S) = NeverStr
  \/ ExtractTableName(S) \notin DOMAIN TableSchemas
  \/ ExtractSelectList(S) = NeverStr
  \/ HasJoin(S) /\ ExtractJoinedTableName(S) \notin DOMAIN TableSchemas

\* C6: a failed stage never yields a partial result: with no FROM target, a
\* FROM table or a JOIN target that is not in the catalog, or no SELECT list,
\* the whole output is the permissive fallback.
C6_NoPartialResult == (Done /\ StageFails(tq.norm)) => tq.out = Fallback

\* What the claim has A JOIN B make available: every column of either table,
\* with that table's type when one table has it and the union of both types
\* when both have it
Available(A, B) ==
  [c \in DOMAIN TableSchemas[A] \cup DOMAIN TableSchemas[B] |->
     IF c \in DOMAIN TableSchemas[A]
     THEN IF c \in DOMAIN TableSchemas[B]
          THEN TsUnion(CatalogType(A, c), CatalogType(B, c))
          ELSE CatalogType(A, c)
     ELSE CatalogType(B, c)]

\* C11: the columns a two-table join A JOIN B makes available are those of
\* either table, a column of one table with that table's type and a column
\* of both with the union of the two types; B JOIN A makes the same columns
\* available with the same types.
C11_MergeCommutes ==
  (Done /\ sql.kind = "joinstar")
    => /\ tq.out = Row(Available(sql.table, sql.join))
       /\ tq.out = TypedQuery(JoinStarQuery(sql.join, sql.table))
       /\ MergeSchemas(TableSchemas[sql.table], TableSchemas[sql.join])
            = MergeSchemas(TableSchemas[sql.join], TableSchemas[sql.table])

\* transfers JOIN base.transactions: both have `value`, with different types
C11_Witness ==
  /\ Done
  /\ sql.kind = "joinstar"
  /\ sql.table = W("transfers")
  /\ sql.join = Transactions
  /\ CatalogType(sql.table, W("value")) # CatalogType(sql.join, W("value"))
  /\ tq.out.cols[W("value")] = TsUnion(PlainString, NumericString)
  /\ W("token_address") \in DOMAIN tq.out.cols
  /\ W("gas") \in DOMAIN tq.out.cols

\* Every column of the table T with its catalog type
CatalogRow(T) == [c \in DOMAIN TableSchemas[T] |-> CatalogType(T, c)]

\* C12: a query whose select list has an item that is exactly `*` is a star
\* projection: its row has every column of the active schema, the merged one
\* when the query has a join, each with its catalog type.
C12_StarProjection ==
  /\ (Done /\ sql.kind = "star") => tq.out = Row(CatalogRow(sql.table))
  /\ (Done /\ sql.kind = "joinstar") => tq.out = Row(Available(sql.table, sql.join))

\* How many parentheses and brackets are open before position i of s
Nesting(s, i) ==
  Cardinality({k \in 1..(i - 1) : s[k] \in {"(", "["}})
    - Cardinality({k \in 1..(i - 1) : s[k] \in {")", "]"}})

\* Where a top-level ' as ' of s starts
TopLevelAs(s) ==
  {i \in 1..(Len(s) - 2) : SubSeq(s, i, i + 2) = Sp("as") /\ Nesting(s, i) = 0}

\* The rightmost of them
AliasBoundary(s) == CHOOSE i \in TopLevelAs(s) : \A j \in TopLevelAs(s) : j <= i

\* The row has the one key a
OnlyKey(r, a) == ~r.open /\ DOMAIN r.cols = {a}

\* C13: the alias boundary of a select item is its rightmost top-level
\* ' as ': what stands before it is the expression, what stands after it the
\* alias; an item without a top-level ' as ', one that is a cast included,
\* is all expression.
C13_AliasBoundary ==
  (Done /\ sql.kind = "item") =>
    LET item == Normalize(sql.col)
        parsed == ParseSingleItem(item)
    IN IF TopLevelAs(item) = {}
       THEN parsed.expr = item
       ELSE /\ parsed.expr = SubSeq(item, 1, AliasBoundary(item) - 1)
            /\ parsed.alias = SubSeq(item, AliasBoundary(item) + 3, Len(item))
            /\ OnlyKey(tq.out, parsed.alias)

\* s starts with a qualifier <table>.
Qualifier(s) == Len(s) >= 3 /\ s[2] = "." /\ s[1] \notin {"(", "[", ")", "]", " "}

\* The alias the claim gives an item without one: the item without its
\* leading qualifier when it has one, the item itself otherwise (verbatim
\* with a bracket or parenthesis in it, the bare column name without)
DefaultAlias(s) == IF Qualifier(s) THEN SubSeq(s, 3, Len(s)) ELSE s

\* C14: an item without an alias is named by its expression with a single
\* leading `<table>.` qualifier stripped when it has one, else by its full
\* text when that has a `[` or `(`, else by the bare column name.
C14_DefaultAlias ==
  (Done /\ sql.kind = "item" /\ ~Contains(Normalize(sql.col), Sp("as")))
    => /\ InferDefaultAlias(Normalize(sql.col)) = DefaultAlias(Normalize(sql.col))
       /\ OnlyKey(tq.out, DefaultAlias(Normalize(sql.col)))

\* The row with the one key a of type t
OneColumn(a, t) == Row([k \in {a} |-> t])

\* C15: cast(<expr> as <type>) and <expr>::<type> have the type that the
\* catalog's mapping gives the type name, in any case of its letters,
\* whatever <expr> is: a column, a table-qualified column, a map index.
C15_CastType ==
  (Done /\ sql.kind = "cast") => tq.out = OneColumn(W("v"), CatalogResponseType(sql.arg))

\* C16: count(...) and sum(...) are NumericString and avg(...) is number for
\* every argument, a table-qualified one included; min(e) and max(e) have the
\* type that e resolves to.
C16_Aggregates ==
  (Done /\ sql.kind = "aggregate") =>
    tq.out = OneColumn(W("v"),
                       CASE sql.form \in {"count", "sum"} -> NumericString
                         [] sql.form = "avg" -> SmallInt
                         [] sql.form \in {"min", "max"} ->
                              ResolveExpression(Normalize(sql.col),
                                                TableSchemas[sql.table]))

\* The type the catalog gives column c of table T, Unknown when T has no
\* such column
ColumnType(T, c) ==
  IF c \in DOMAIN TableSchemas[T] THEN MapSqlTypes(TableSchemas[T][c]) ELSE Unknown

\* C17: <col>['key'] and <col>["key"], with or without a table qualifier, have
\* the value type V for every key when <col> is a column of type MapOf(_, V),
\* and Unknown when <col> is not a map column.
C17_MapIndex ==
  (Done /\ sql.kind = "index") =>
    tq.out = OneColumn(W("v"), MapValueType(ColumnType(sql.table, sql.col)))

\* C18: a statement with a CTE, a subquery or a UNION resolves to the
\* permissive fallback row, not to a row taken from one part of it.
C18_UnsupportedFallback ==
  (Done /\ sql.kind = "unsupported") => tq.out = Fallback

\* C19: when two select items of one query have the same alias, the row
\* maps the alias to the type of the last of them.
C19_LastWriteWins ==
  (Done /\ sql.kind = "collision") =>
    tq.out = OneColumn(W("a"), ResolveExpression(Normalize(sql.arg),
                                                 TableSchemas[sql.table]))

\* C20: normalization is idempotent: normalizing a normalized text gives the
\* same text.
C20_NormalizeIdempotent ==
  tq.pc # "input" => Normalize(tq.norm) = tq.norm

TopLevelFroms(s) ==
  {k \in 1..(Len(s) - 2) : SubSeq(s, k, k + 2) = Sp("from") /\ Nesting(s, k) = 0}

\* The name that follows the first top-level `from` of s, up to the next
\* space
TopLevelTarget(s) ==
  LET k == CHOOSE j \in TopLevelFroms(s) : \A m \in TopLevelFroms(s) : j <= m
      rest == SubSeq(s, k + 3, Len(s))
  IN IF Contains(rest, W(" ")) THEN Before(rest, W(" ")) ELSE rest

\* C28: the FROM target is what follows the first `from` that is outside
\* every parenthesis and bracket, up to the next clause keyword or the end,
\* without the alias; a `from` inside a function call of the select list is
\* not taken for the FROM clause.
C28_TopLevelFrom ==
  (tq.pc # "input" /\ sql.kind \in {"column", "item", "cast", "fromcall"}) =>
    /\ TopLevelFroms(tq.norm) # {}
    /\ ExtractTableName(tq.norm) = TopLevelTarget(tq.norm)
    /\ ExtractTableName(tq.norm) = Lowercase(sql.table)

(***************************************************************************)
(* The builder path as a state machine: a step is one call of a method of  *)
(* a creator or of a builder that exists, with arguments that type-check.  *)
(***************************************************************************)
MaxBuilders == 3

MaxCreators == 3

\* The heap of builders is capped
Room == Len(builders) < MaxBuilders

\* Arguments: a column string, an array of them, or a callback
StrArg(column) == [form |-> "string", column |-> column, columns |-> <<>>, fn |-> <<>>]

ArrArg(columns) == [form |-> "array", column |-> Empty, columns |-> columns, fn |-> <<>>]

FnArg(fn) == [form |-> "callback", column |-> Empty, columns |-> <<>>, fn |-> fn]

Recipe(m, column, key, alias) == [m |-> m, column |-> column, key |-> key, alias |-> alias]

NumVal(n) == [tag |-> "number", value |-> Num(n)]

StrVal(s) == [tag |-> "string", value |-> s]

NoVal == [tag |-> "undefined", value |-> Empty]

Phrase(ws) == JoinWith([i \in 1..Len(ws) |-> W(ws[i])], W(" "))

\* AnyColumn<DB, TB> as the type of an argument
InScope(this, columns) == columns \subseteq AnyColumn(this.ext, this.TB)

\* What the properties remember of the call that made the last builder of bs
Track(bs, i, call) ==
  [bs EXCEPT ![Len(bs)].parent = i, ![Len(bs)].calls = Append(bs[i].calls, call)]

TrackCreator(cs, c, name, fn) ==
  [cs EXCEPT ![Len(cs)].parent = c, ![Len(cs)].name = name, ![Len(cs)].fn = fn]

\* qb => qb.selectFrom(table).select(arg)
Body(table, arg) == [table |-> table, arg |-> arg, inner |-> <<>>]

\* qb => qb.with(name, body).selectFrom(table).select(arg)
NestedBody(name, body, table, arg) ==
  [table |-> table, arg |-> arg, inner |-> <<[name |-> name, body |-> body]>>]

SelectFrom(tables) ==
  \E c \in DOMAIN creators, table \in tables :
    /\ Room
    /\ table \in DBKeys(creators[c].ext)
    /\ builders' = [selectFrom(creators, builders, c, table)
                      EXCEPT ![Len(builders) + 1].calls =
                               <<[op |-> "selectFrom", a |-> <<table>>]>>]
    /\ UNCHANGED <<creators, sql, tq>>

Select(args) ==
  \E i \in DOMAIN builders, arg \in args :
    /\ Room
    /\ arg.form = "callback" =>
         \A k \in DOMAIN arg.fn : InScope(builders[i], CallColumns(arg.fn[k]))
    /\ builders' = Track(select(builders, i, arg), i, [op |-> "select", a |-> <<arg>>])
    /\ UNCHANGED <<creators, sql, tq>>

SelectAll ==
  \E i \in DOMAIN builders :
    /\ Room
    /\ builders' = Track(selectAll(builders, i), i, [op |-> "selectAll", a |-> <<>>])
    /\ UNCHANGED <<creators, sql, tq>>

Distinct ==
  \E i \in DOMAIN builders :
    /\ Room
    /\ builders' = Track(distinct(builders, i), i, [op |-> "distinct", a |-> <<>>])
    /\ UNCHANGED <<creators, sql, tq>>

\* where('event_signature', '=', <string>) is the first overload; the second
\* wants a column in scope
WhereTyped(this, a) ==
  IF a[1].form = "callback" THEN InScope(this, CallColumns(a[1].fn))
  ELSE \/ a[1].column = W("event_signature") /\ a[2] = W("=") /\ a[3].tag = "string"
       \/ InScope(this, {a[1].column})

Where(args) ==
  \E i \in DOMAIN builders, a \in args :
    /\ Room
    /\ WhereTyped(builders[i], a)
    /\ builders' =
         Track(where(builders, i, a[1], a[2], a[3]), i, [op |-> "where", a |-> a])
    /\ UNCHANGED <<creators, sql, tq>>

InnerJoin(args) ==
  \E i \in DOMAIN builders, a \in args :
    /\ Room
    /\ a[1] \in DBKeys(builders[i].ext) \/ IsAliased(builders[i], a[1])
    /\ builders' = Track(innerJoin(builders, i, a[1], a[2], a[3], a[4]), i,
                         [op |-> "innerJoin", a |-> a])
    /\ UNCHANGED <<creators, sql, tq>>

LeftJoin(args) ==
  \E i \in DOMAIN builders, a \in args :
    /\ Room
    /\ a[1] \in DBKeys(builders[i].ext) \/ IsAliased(builders[i], a[1])
    /\ builders' = Track(leftJoin(builders, i, a[1], a[2], a[3], a[4]), i,
                         [op |-> "leftJoin", a |-> a])
    /\ UNCHANGED <<creators, sql, tq>>

RightJoin(args) ==
  \E i \in DOMAIN builders, a \in args :
    /\ Room
    /\ a[1] \in DBKeys(builders[i].ext)
    /\ builders' = Track(rightJoin(builders, i, a[1], a[2], a[3], a[4]), i,
                         [op |-> "rightJoin", a |-> a])
    /\ UNCHANGED <<creators, sql, tq>>

FullJoin(args) ==
  \E i \in DOMAIN builders, a \in args :
    /\ Room
    /\ a[1] \in DBKeys(builders[i].ext)
    /\ builders' = Track(fullJoin(builders, i, a[1], a[2], a[3], a[4]), i,
                         [op |-> "fullJoin", a |-> a])
    /\ UNCHANGED <<creators, sql, tq>>

GroupBy(args) ==
  \E i \in DOMAIN builders, arg \in args :
    /\ Room
    /\ CASE arg.form = "callback" ->
              \A k \in DOMAIN arg.fn : InScope(builders[i], CallColumns(arg.fn[k]))
         [] arg.form = "array" ->
              InScope(builders[i], {arg.columns[k] : k \in DOMAIN arg.columns})
         [] arg.form = "string" -> InScope(builders[i], {arg.column})
    /\ builders' = Track(groupBy(builders, i, arg), i, [op |-> "groupBy", a |-> <<arg>>])
    /\ UNCHANGED <<creators, sql, tq>>

Having(args) ==
  \E i \in DOMAIN builders, a \in args :
    /\ Room
    /\ a[1].form = "callback" => InScope(builders[i], CallColumns(a[1].fn))
    /\ builders' =
         Track(having(builders, i, a[1], a[2], a[3]), i, [op |-> "having", a |-> a])
    /\ UNCHANGED <<creators, sql, tq>>

OrderBy(args) ==
  \E i \in DOMAIN builders, a \in args :
    /\ Room
    /\ InScope(builders[i], {a[1]})
    /\ builders' = Track(orderBy(builders, i, a[1], a[2]), i, [op |-> "orderBy", a |-> a])
    /\ UNCHANGED <<creators, sql, tq>>

Limit(counts) ==
  \E i \in DOMAIN builders, n \in counts :
    /\ Room
    /\ builders' = Track(limit(builders, i, n), i, [op |-> "limit", a |-> <<n>>])
    /\ UNCHANGED <<creators, sql, tq>>

\* c.with(name, fn): the table fn selects from is a key of DB, or the name
\* of the CTE that fn defines before it selects
With(names, fns) ==
  \E c \in DOMAIN creators, name \in names, fn \in fns :
    /\ Len(creators) < MaxCreators
    /\ \/ fn.table \in DBKeys(creators[c].ext)
       \/ fn.inner # <<>> /\ fn.table = fn.inner[1].name
    /\ fn.inner # <<>> => fn.inner[1].body.table \in DBKeys(creators[c].ext)
    /\ creators' = TrackCreator(with(creators, c, name, fn), c, name, fn)
    /\ UNCHANGED <<builders, sql, tq>>

MakeCdpQueryCreator(abis) ==
  \E abi \in abis :
    /\ Len(creators) < MaxCreators
    /\ creators' = makeCdpQueryCreator(creators, abi)
    /\ UNCHANGED <<builders, sql, tq>>

(***************************************************************************)
(* Spec: queries on base.blocks that use every clause                      *)
(***************************************************************************)
Tables == {Blocks}

SelectArgs ==
  { StrArg(Col("block_number")),
    ArrArg(<<Col("miner"), Phrase(<<"gas_used", "as", "g">>)>>),
    FnArg(<<Recipe("count", Empty, Empty, W("n"))>>) }

WhereArgs ==
  { <<StrArg(Col("block_number")), W(">"), NumVal(1000)>>,
    <<FnArg(Recipe("isNull", Col("miner"), Empty, Empty)), Empty, NoVal>> }

InnerJoinArgs ==
  { <<Transactions \o <<" ", "as", " ", "t">>,
      Blocks \o <<".", "block_number">>, W("="), Dot("t", "block_number")>> }

LeftJoinArgs == { <<W("events"), Col("block_hash"), W("="), Col("block_hash")>> }

RightJoinArgs == { <<W("transfers"), Col("block_number"), W("="), Col("block_number")>> }

FullJoinArgs == { <<W("encoded_logs"), Col("block_hash"), W("="), Col("block_hash")>> }

GroupByArgs == { StrArg(Col("miner")), ArrArg(<<Col("block_number"), Col("timestamp")>>) }

HavingArgs ==
  { <<StrArg(Col("gas_used")), W(">"), NumVal(5)>>,
    <<StrArg(<<"count", "(", "*", ")">>), <<">", "=">>, NumVal(2)>> }

OrderByArgs == { <<Col("block_number"), W("desc")>>, <<Col("timestamp"), Empty>> }

LimitArgs == {10, 5}

CteNames == {W("recent")}

CteBodies == { Body(Blocks, ArrArg(<<Col("block_number"), Col("miner")>>)) }

Init ==
  /\ creators = <<cdp>>
  /\ builders = <<>>
  /\ sql = NoQuery
  /\ tq = TextIdle

Next ==
  \/ SelectFrom(Tables)
  \/ Select(SelectArgs)
  \/ SelectAll
  \/ Distinct
  \/ Where(WhereArgs)
  \/ InnerJoin(InnerJoinArgs)
  \/ LeftJoin(LeftJoinArgs)
  \/ RightJoin(RightJoinArgs)
  \/ FullJoin(FullJoinArgs)
  \/ GroupBy(GroupByArgs)
  \/ Having(HavingArgs)
  \/ OrderBy(OrderByArgs)
  \/ Limit(LimitArgs)
  \/ With(CteNames, CteBodies)

Spec == Init /\ [][Next]_vars


(***************************************************************************)
(* Builder path: properties                                                *)
(***************************************************************************)

\* The call `call` made on entry i of bs
Apply(bs, i, call) ==
  CASE call.op = "select" -> select(bs, i, call.a[1])
    [] call.op = "selectAll" -> selectAll(bs, i)
    [] call.op = "distinct" -> distinct(bs, i)
    [] call.op = "where" -> where(bs, i, call.a[1], call.a[2], call.a[3])
    [] call.op = "innerJoin" -> innerJoin(bs, i, call.a[1], call.a[2], call.a[3], call.a[4])
    [] call.op = "leftJoin" -> leftJoin(bs, i, call.a[1], call.a[2], call.a[3], call.a[4])
    [] call.op = "rightJoin" -> rightJoin(bs, i, call.a[1], call.a[2], call.a[3], call.a[4])
    [] call.op = "fullJoin" -> fullJoin(bs, i, call.a[1], call.a[2], call.a[3], call.a[4])
    [] call.op = "groupBy" -> groupBy(bs, i, call.a[1])
    [] call.op = "having" -> having(bs, i, call.a[1], call.a[2], call.a[3])
    [] call.op = "orderBy" -> orderBy(bs, i, call.a[1], call.a[2])
    [] call.op = "limit" -> limit(bs, i, call.a[1])

RECURSIVE ReplayFrom(_, _, _)
ReplayFrom(bs, calls, k) ==
  IF k > Len(calls) THEN bs
  ELSE ReplayFrom(Apply(bs, Len(bs), calls[k]), calls, k + 1)

\* The builder that the chain c.selectFrom(..).m1(..).m2(..)... of the calls
\* `calls` gives when nothing else is ever called
Replay(cs, c, calls) ==
  LET chain == ReplayFrom(selectFrom(cs, <<>>, c, calls[1].a[1]), calls, 2)
  IN chain[Len(chain)]

Sql(this) == compile(this).sql

\* Every builder compiles to what the chain of calls that made it compiles to
\* on its own, whatever was called on the builders of that chain besides
OwnClausesOnly ==
  \A i \in DOMAIN builders :
    compile(builders[i]) = compile(Replay(creators, builders[i].creator, builders[i].calls))

\* A step leaves what every builder compiles to, and what selectFrom on every
\* creator compiles to, as it was
Frozen ==
  /\ \A i \in DOMAIN builders : compile(builders'[i]) = compile(builders[i])
  /\ \A c \in DOMAIN creators :
       \A table \in DBKeys(creators[c].ext) :
         compile(selectFrom(creators', <<>>, c, table)[1])
           = compile(selectFrom(creators, <<>>, c, table)[1])

\* C1: builders and creators are immutable and forkable: no call changes what
\* a builder that exists compiles to or what selectFrom on a creator that
\* exists compiles to, and a builder compiles to the clauses of the calls of
\* its own chain only, never to those of another continuation of a builder
\* it shares.
C1_ImmutableForkable == []OwnClausesOnly /\ [][Frozen]_vars

\* A builder with two continuations that compile to three different texts,
\* next to a creator that with() made from cdp and a query begun on cdp
C1_Witness ==
  /\ \E b, i, j \in DOMAIN builders :
       /\ builders[i].parent = b
       /\ builders[j].parent = b
       /\ Sql(builders[i]) # Sql(builders[j])
       /\ Sql(builders[i]) # Sql(builders[b])
       /\ Sql(builders[j]) # Sql(builders[b])
       /\ builders[b].creator = 1
  /\ \E c \in DOMAIN creators : creators[c].parent = 1


(***************************************************************************)
(* Reading a compiled text: the words that start a clause, outside every   *)
(* pair of parentheses                                                     *)
(***************************************************************************)
JoinTypes == {"INNER", "LEFT", "RIGHT", "FULL"}

ClauseRank(w) ==
  CASE w = "WITH" -> 1
    [] w = "SELECT" -> 2
    [] w = "FROM" -> 3
    [] w \in JoinTypes -> 4
    [] w = "WHERE" -> 5
    [] w = "GROUP" -> 6
    [] w = "HAVING" -> 7
    [] w = "ORDER" -> 8
    [] w = "LIMIT" -> 9
    [] OTHER -> 0

\* The number of pairs of parentheses that position i of s is inside of
Depth(s, i) ==
  Cardinality({j \in 1..(i - 1) : s[j] = "("}) - Cardinality({j \in 1..(i - 1) : s[j] = ")"})

\* Where the clauses of s start, in the order of the text
ClauseStarts(s) ==
  SelectSeq([i \in 1..Len(s) |-> i],
            LAMBDA i : ClauseRank(s[i]) > 0 /\ Depth(s, i) = 0)

\* The ranks of the clauses that start at `starts`, in the order of the text
ClauseRanks(s, starts) == [k \in 1..Len(starts) |-> ClauseRank(s[starts[k]])]

CountRank(ranks, r) == Cardinality({k \in 1..Len(ranks) : ranks[k] = r})

\* The calls of a builder's chain that are calls of a method of ops
CallsOf(this, ops) == SelectSeq(this.calls, LAMBDA call : call.op \in ops)

JoinOps == {"innerJoin", "leftJoin", "rightJoin", "fullJoin"}

SelectOps == {"select", "selectAll"}

\* The clause a call feeds
ClauseOf(op) ==
  CASE op \in SelectOps -> "selections"
    [] op \in JoinOps -> "joins"
    [] OTHER -> op

\* How often the clause of rank r is to appear in what `this` compiles to
Expected(this, r) ==
  CASE r = 1 -> IF creators[this.creator].parent # 0 THEN 1 ELSE 0
    [] r \in {2, 3} -> 1
    [] r = 4 -> Len(CallsOf(this, JoinOps))
    [] r = 5 -> IF Len(CallsOf(this, {"where"})) > 0 THEN 1 ELSE 0
    [] r = 6 -> IF Len(CallsOf(this, {"groupBy"})) > 0 THEN 1 ELSE 0
    [] r = 7 -> IF Len(CallsOf(this, {"having"})) > 0 THEN 1 ELSE 0
    [] r = 8 -> IF Len(CallsOf(this, {"orderBy"})) > 0 THEN 1 ELSE 0
    [] r = 9 -> IF Len(CallsOf(this, {"limit"})) > 0 THEN 1 ELSE 0

\* The clauses stand in the fixed order, the joins alone repeating
FixedOrder(ranks) ==
  \A k \in 1..(Len(ranks) - 1) :
    \/ ranks[k] < ranks[k + 1]
    \/ ranks[k] = 4 /\ ranks[k + 1] = 4

\* s starts with its first clause, and one space stands before every other
SingleSpaces(s, starts, selected) ==
  /\ starts[1] = 1
  /\ \A k \in 2..Len(starts) :
       /\ s[starts[k] - 1] = " "
       /\ selected => s[starts[k] - 2] # " "
  /\ selected => s[Len(s)] # " "

\* SELECT is followed by DISTINCT just when distinct() was called
DistinctAsCalled(this, s, starts) ==
  LET at == starts[CHOOSE k \in 1..Len(starts) : s[starts[k]] = "SELECT"]
  IN (at + 2 <= Len(s) /\ s[at + 2] = "DISTINCT") <=> Len(CallsOf(this, {"distinct"})) > 0

Orders(n) ==
  {f \in [1..n -> 1..n] : \A i, j \in 1..n : i # j => f[i] # f[j]}

\* The orders of the calls after selectFrom that keep the calls that feed one
\* clause in the order they have
Reorderings(calls) ==
  {f \in Orders(Len(calls) - 1) :
     \A i, j \in 1..(Len(calls) - 1) :
       (i < j /\ ClauseOf(calls[f[i] + 1].op) = ClauseOf(calls[f[j] + 1].op))
         => f[i] < f[j]}

\* selectFrom and then the other calls in the order f
Reordered(calls, f) == <<calls[1]>> \o [k \in 1..(Len(calls) - 1) |-> calls[f[k] + 1]]

ListRank(op) ==
  CASE op = "select" -> 2
    [] op \in JoinOps -> 4
    [] op = "where" -> 5
    [] op = "groupBy" -> 6
    [] op = "having" -> 7
    [] op = "orderBy" -> 8
    [] OTHER -> 0

\* What stands between two entries of the clause of rank r
Separator(r) ==
  CASE r \in {2, 6, 8} -> <<",", " ">>
    [] r \in {5, 7} -> <<" ", "AND", " ">>
    [] r = 4 -> W(" ")

\* The words a clause of rank r starts with, which its entries follow
Lead(s, at, r) ==
  CASE r = 2 -> IF at + 2 <= Len(s) /\ s[at + 2] = "DISTINCT" THEN 4 ELSE 2
    [] r = 4 -> 0
    [] r \in {1, 3, 5, 7, 9} -> 2
    [] r \in {6, 8} -> 4

\* The entries of the clause of rank r of the text s with their separators:
\* what stands after the clause's leading words up to the space before the
\* next clause of another rank, Empty when s has no such clause
Entries(s, r) ==
  LET starts == ClauseStarts(s)
      ranks == ClauseRanks(s, starts)
      mine == {k \in 1..Len(starts) : ranks[k] = r}
      first == CHOOSE k \in mine : \A m \in mine : k <= m
      last == CHOOSE k \in mine : \A m \in mine : k >= m
      end == IF last = Len(starts) THEN Len(s) ELSE starts[last + 1] - 2
  IN IF mine = {} THEN Empty
     ELSE SubSeq(s, starts[first] + Lead(s, starts[first], r), end)

\* C3: a call of select, of a join, of where, groupBy, having or orderBy
\* leaves the entries that its clause had in the builder it was called on
\* where they were and puts its own after them: separated by ', ' in the
\* select list, GROUP BY and ORDER BY, by a space between joins, and by
\* ' AND ' outside every parenthesis in WHERE and HAVING.
C3_CallOrder ==
  \A i \in DOMAIN builders :
    LET this == builders[i]
        call == this.calls[Len(this.calls)]
        r == ListRank(call.op)
        old == Entries(Sql(builders[this.parent]), r)
        new == Entries(Sql(Replay(creators, this.creator, <<this.calls[1], call>>)), r)
        now == Entries(Sql(this), r)
    IN (this.parent # 0 /\ r # 0) =>
         /\ new # Empty
         /\ now = IF old = Empty THEN new ELSE old \o Separator(r) \o new
         /\ (old # Empty /\ r \in {5, 7}) => Depth(now, Len(old) + 2) = 0

\* Two where calls with different conditions, made one after the other
C3_Witness ==
  \E i \in DOMAIN builders :
    /\ Len(builders[i].calls) = 3
    /\ builders[i].calls[2].op = "where"
    /\ builders[i].calls[3].op = "where"
    /\ Entries(Sql(builders[i]), 5)
         = <<"block_number", " ", ">", " ", "1000", " ", "AND", " ",
             "miner", " ", "IS", " ", "NULL">>


(***************************************************************************)
(* SpecCte: chains of with() and the queries begun on them                 *)
(***************************************************************************)
ChainNames == {W("recent"), W("blocks")}

ChainBodies ==
  { Body(Blocks, ArrArg(<<Col("block_number"), Col("miner")>>)),
    Body(Events, StrArg(Col("event_name"))),
    Body(W("recent"), StrArg(Col("block_number"))) }

ChainTables == {W("recent"), W("blocks")}

ChainSelectArgs == { StrArg(Col("miner")), StrArg(Col("block_number")) }

NextCte ==
  \/ With(ChainNames, ChainBodies)
  \/ SelectFrom(ChainTables)
  \/ Select(ChainSelectArgs)

SpecCte == Init /\ [][NextCte]_vars

\* The creators that the with() calls of the chain of c made, first to last
RECURSIVE Chain(_)
Chain(c) == IF creators[c].parent = 0 THEN <<>> ELSE Append(Chain(creators[c].parent), c)

\* The creator of the chain of c that last defined the name n, 0 without one
RECURSIVE Definer(_, _)
Definer(c, n) ==
  IF creators[c].parent = 0 THEN 0
  ELSE IF creators[c].name = n THEN c
  ELSE Definer(creators[c].parent, n)

\* The builder that the callback of the with() call that made c answered
BodyOf(c) ==
  CallbackBuilder(CdpQueryCreator(<<>>, creators[creators[c].parent].ext, creators[c].ABI),
                  creators[c].fn)

\* What the names of a select argument resolve to against the row R alone
Against(R, arg) ==
  LET one(S) == IF S \in DOMAIN R THEN [K \in {S} |-> R[S]] ELSE <<>>
  IN IF arg.form = "string" THEN one(arg.column)
     ELSE [K \in {arg.columns[k] : k \in {j \in DOMAIN arg.columns : arg.columns[j] \in DOMAIN R}}
             |-> R[K]]

\* <name> AS (<subquery>)
Rendered(c) == creators[c].name \o <<" ", "AS", " ", "(">> \o Sql(BodyOf(c)) \o W(")")

\* The WITH clause of s: what stands before the space before SELECT
WithText(s) ==
  LET starts == ClauseStarts(s)
  IN IF s[starts[1]] = "WITH" THEN SubSeq(s, 1, starts[2] - 2) ELSE Empty

\* The WITH clause of the queries of a creator lists the CTEs of its chain in
\* the order they were defined in
ListsChain ==
  \A i \in DOMAIN builders :
    LET chain == Chain(builders[i].creator)
    IN WithText(Sql(builders[i])) =
         IF chain = <<>> THEN Empty
         ELSE <<"WITH", " ">>
              \o JoinWith([k \in 1..Len(chain) |-> Rendered(chain[k])], <<",", " ">>)

\* A CTE whose body selects from a CTE defined before it has the row shape
\* its select list has against the row shape of that CTE
LaterSeesEarlier ==
  \A c \in DOMAIN creators :
    (creators[c].parent # 0 /\ Definer(creators[c].parent, creators[c].fn.table) # 0) =>
      BodyOf(c).O = Against(BodyOf(Definer(creators[c].parent, creators[c].fn.table)).O,
                            creators[c].fn.arg)

\* A query begun with selectFrom(name) has the row shape its select list has
\* against the row shape of the CTE of that name
OuterSeesCte ==
  \A i \in DOMAIN builders :
    LET this == builders[i]
        d == Definer(this.creator, this.calls[1].a[1])
    IN (Len(this.calls) = 2 /\ this.calls[2].op = "select" /\ d # 0) =>
         compile(this).O = Against(BodyOf(d).O, this.calls[2].a[1])

\* C7: k calls of with() give queries whose WITH clause lists the k CTEs in
\* the order of their definition, each as <name> AS (<subquery>), with ', '
\* between them; a CTE that selects from one defined before it, and a query
\* begun with selectFrom(name), see exactly the row shape of that CTE.
C7_CteChain == ListsChain /\ LaterSeesEarlier /\ OuterSeesCte


(***************************************************************************)
(* SpecAbi: queries on base.events begun on cdp and on creators made with  *)
(* an ABI                                                                  *)
(***************************************************************************)
TransferEvent ==
  AbiEvent(W("Transfer"),
           << AbiParam(W("from"), W("address")),
              AbiParam(W("to"), W("address")),
              AbiParam(W("value"), <<"uint", "256">>) >>)

SettledEvent ==
  AbiEvent(W("Settled"),
           << AbiParam(W("ok"), W("bool")),
              AbiParam(W("delta"), <<"int", "128">>),
              AbiParam(W("memo"), W("string")),
              AbiParam(W("digest"), <<"bytes", "32">>),
              AbiParam(W("payees"), <<"address", "[", "]">>) >>)

Erc20Abi == <<AbiFunction(W("transfer")), TransferEvent, SettledEvent>>

\* 'Transfer(address,address,uint256)'
TransferSig ==
  <<"Transfer", "(", "address", ",", "address", ",", "uint", "256", ")">>

\* 'Settled(bool,int128,string,bytes32,address[])'
SettledSig ==
  <<"Settled", "(", "bool", ",", "int", "128", ",", "string", ",", "bytes", "32",
    ",", "address", "[", "]", ")">>

\* 'Burn(address)', the signature of no event of the ABI
BurnSig == <<"Burn", "(", "address", ")">>

Parameters == W("parameters")

SignatureWhere(sig) == <<StrArg(W("event_signature")), W("="), StrVal(sig)>>

AbiWhereArgs ==
  { SignatureWhere(TransferSig), SignatureWhere(SettledSig), SignatureWhere(BurnSig),
    <<StrArg(W("event_signature")), <<"!", "=">>, StrVal(TransferSig)>> }

AbiSelectArgs ==
  { FnArg(<<Recipe("map", Parameters, W("from"), W("sender")),
            Recipe("map", Parameters, W("value"), W("amount"))>>),
    FnArg(<<Recipe("map", Parameters, W("delta"), W("change")),
            Recipe("map", Parameters, W("nope"), W("missing"))>>) }

AbiJoinArgs ==
  { <<Transactions \o <<" ", "as", " ", "t">>,
      Col("transaction_hash"), W("="), Dot("t", "transaction_hash")>> }

AbiGroupByArgs == { StrArg(Col("event_name")) }

AbiHavingArgs == { <<StrArg(<<"count", "(", "*", ")">>), W(">"), NumVal(1)>> }

AbiOrderByArgs == { <<Col("block_number"), W("desc")>> }

AbiLimitArgs == {100}

NextAbi ==
  \/ MakeCdpQueryCreator({Erc20Abi})
  \/ SelectFrom({Events})
  \/ Where(AbiWhereArgs)
  \/ Select(AbiSelectArgs)
  \/ InnerJoin(AbiJoinArgs)
  \/ GroupBy(AbiGroupByArgs)
  \/ Having(AbiHavingArgs)
  \/ OrderBy(AbiOrderByArgs)
  \/ Limit(AbiLimitArgs)

SpecAbi == Init /\ [][NextAbi]_vars

\* The keys looked up in the parameters map
AbiKeys ==
  { W("from"), W("to"), W("value"), W("ok"), W("delta"), W("memo"), W("digest"),
    W("payees"), W("nope") }

IsSignatureWhere(call) ==
  /\ call.op = "where"
  /\ call.a[1].form = "string"
  /\ call.a[1].column = W("event_signature")
  /\ call.a[2] = W("=")
  /\ call.a[3].tag = "string"

\* The signature calls of the chain of a builder, first to last
SignatureCalls(this) == SelectSeq(this.calls, IsSignatureWhere)

Narrowed(this) == Len(SignatureCalls(this)) > 0

\* The literal of the last where('event_signature', '=', literal) of the chain
LastSignature(this) == SignatureCalls(this)[Len(SignatureCalls(this))].a[3].value

\* The events of the ABI of a builder whose computed signature is sig
EventsSigned(this, sig) ==
  {this.ABI[k] : k \in {j \in DOMAIN this.ABI :
                          /\ this.ABI[j].type = "event"
                          /\ CdpEventSignature(this.ABI[j]) = sig}}

\* The declared types of the parameters of e that are named key
Declared(e, key) == {e.inputs[k].type : k \in {j \in DOMAIN e.inputs : e.inputs[j].name = key}}

\* address -> HexString, bool -> Boolean, uint* and int* -> NumericString,
\* string -> PlainString, bytes* -> HexString, anything else -> PlainString
DeclaredMapping(T) ==
  CASE T = W("address") -> HexString
    [] T = W("bool") -> Boolean
    [] T = <<"uint", "256">> -> NumericString
    [] T = <<"int", "128">> -> NumericString
    [] T = W("string") -> PlainString
    [] T = <<"bytes", "32">> -> HexString
    [] T = <<"address", "[", "]">> -> PlainString

\* The type that map('parameters', key) has in a select callback called on
\* entry i, under an alias no select used
MapType(i, key) ==
  LET probed == select(builders, i, FnArg(<<Recipe("map", Parameters, key, W("probe"))>>))
  IN probed[Len(probed)].O[W("probe")]

\* The aliases under which the select callback `fn` has map('parameters', key)
MapAliases(fn, key) ==
  {fn[k].alias : k \in {j \in DOMAIN fn : fn[j].m = "map" /\ fn[j].column = Parameters
                                          /\ fn[j].key = key}}

\* Entry i was made by a select whose callback the builder `parent` got
SelectedOn(i) ==
  /\ builders[i].parent # 0
  /\ builders[i].calls[Len(builders[i].calls)].op = "select"
  /\ builders[i].calls[Len(builders[i].calls)].a[1].form = "callback"

\* Under every alias of map('parameters', key) that the select that made
\* entry i added to the row, the row has the type T
SelectedAs(i, key, T) ==
  \A alias \in MapAliases(builders[i].calls[Len(builders[i].calls)].a[1].fn, key) :
    alias \notin DOMAIN builders[builders[i].parent].O => compile(builders[i]).O[alias] = T

\* The event of the ABI of a builder that its last signature call names
NarrowedEvent(this) == CHOOSE e \in EventsSigned(this, LastSignature(this)) : TRUE

\* The builder has an ABI and its last signature call names one event of it,
\* which has a parameter named key
Resolves(this, key) ==
  /\ this.ABI # <<>>
  /\ Narrowed(this)
  /\ Cardinality(EventsSigned(this, LastSignature(this))) = 1
  /\ Declared(NarrowedEvent(this), key) # {}

\* What the declared type of that parameter maps to
DeclaredAs(this, key) ==
  DeclaredMapping(CHOOSE T \in Declared(NarrowedEvent(this), key) : TRUE)

\* C8: with an ABI and after where('event_signature', '=', sig), sig the
\* computed signature of one event of the ABI, map('parameters', p) of a
\* parameter p of that event has the type its declared type maps to:
\* address -> HexString, bool -> Boolean, uint256 and int128 ->
\* NumericString, string -> PlainString, bytes32 -> HexString, address[] ->
\* PlainString; and the row of a select that selects it has that type.
C8_AbiNarrowing ==
  \A i \in DOMAIN builders : \A key \in AbiKeys :
    /\ Resolves(builders[i], key) => MapType(i, key) = DeclaredAs(builders[i], key)
    /\ (SelectedOn(i) /\ Resolves(builders[builders[i].parent], key)) =>
         SelectedAs(i, key, DeclaredAs(builders[builders[i].parent], key))

\* A query on a creator with the ERC-20 ABI that was narrowed to Transfer and
\* then selected the parameters from and value
C8_Witness ==
  \E i \in DOMAIN builders :
    /\ builders[i].ABI = Erc20Abi
    /\ Len(builders[i].calls) = 3
    /\ IsSignatureWhere(builders[i].calls[2])
    /\ builders[i].calls[2].a[3].value = TransferSig
    /\ builders[i].calls[3].op = "select"
    /\ compile(builders[i]).O =
         (W("sender") :> HexString) @@ (W("amount") :> NumericString)


\* 'event_signature = '<sig>'', the condition an ordinary where() renders
SignatureCondition(sig) ==
  <<"event_signature", " ", "=", " ", "'">> \o sig \o W("'")

\* What the clauses of the text `now` are against those of the text `old`
\* when the only difference is the condition `condition` at the end of WHERE
OnlyAddsCondition(old, now, condition) ==
  /\ \A r \in (1..9) \ {5} : Entries(now, r) = Entries(old, r)
  /\ Entries(now, 5) = IF Entries(old, 5) = Empty THEN condition
                       ELSE Entries(old, 5) \o Separator(5) \o condition
  /\ Len(now) = Len(old) + Len(condition) + 3

\* C9: where('event_signature', '=', literal) leaves the row that the builder
\* has as it is (a parameter selected before it keeps its type) and adds to
\* the compiled text the condition event_signature = 'literal' of WHERE and
\* nothing else; every other call leaves the type that map('parameters', key)
\* has in a later callback as it was in the builder it was called on.
C9_NarrowingOnlyLater ==
  \A i \in DOMAIN builders :
    LET this == builders[i]
        parent == builders[this.parent]
        call == this.calls[Len(this.calls)]
    IN this.parent # 0 =>
         IF IsSignatureWhere(call)
         THEN /\ compile(this).O = compile(parent).O
              /\ OnlyAddsCondition(Sql(parent), Sql(this), SignatureCondition(call.a[3].value))
         ELSE \A key \in AbiKeys : MapType(i, key) = MapType(this.parent, key)

\* A query with an ABI that selected the parameter from before it was
\* narrowed to Transfer: the row keeps Variant, a later callback gets
\* HexString
C9_Witness ==
  \E i \in DOMAIN builders :
    /\ builders[i].ABI = Erc20Abi
    /\ Len(builders[i].calls) = 3
    /\ builders[i].calls[2].op = "select"
    /\ IsSignatureWhere(builders[i].calls[3])
    /\ builders[i].calls[3].a[3].value = TransferSig
    /\ compile(builders[i]).O = (W("sender") :> Variant) @@ (W("amount") :> Variant)
    /\ MapType(i, W("from")) = HexString

\* No narrowing, no ABI, a signature of no event of the ABI, or no parameter
\* of that name in the event
Unresolved(this, key) ==
  \/ ~Narrowed(this)
  \/ this.ABI = <<>>
  \/ EventsSigned(this, LastSignature(this)) = {}
  \/ \A e \in EventsSigned(this, LastSignature(this)) : Declared(e, key) = {}

\* C10: map('parameters', key) has the type Variant, in a callback and in
\* the row of a select that selects it, when the builder was not narrowed,
\* has no ABI, was narrowed to a signature that is the computed signature of
\* no event of the ABI, or the event has no parameter named key.
C10_VariantFallback ==
  \A i \in DOMAIN builders : \A key \in AbiKeys :
    /\ Unresolved(builders[i], key) => MapType(i, key) = Variant
    /\ (SelectedOn(i) /\ Unresolved(builders[builders[i].parent], key)) =>
         SelectedAs(i, key, Variant)

\* A query narrowed to Settled that selected its parameter delta and the
\* parameter nope, which Settled has not
C10_Witness ==
  \E i \in DOMAIN builders :
    /\ builders[i].ABI = Erc20Abi
    /\ Len(builders[i].calls) = 3
    /\ IsSignatureWhere(builders[i].calls[2])
    /\ builders[i].calls[2].a[3].value = SettledSig
    /\ builders[i].calls[3].op = "select"
    /\ compile(builders[i]).O = (W("change") :> NumericString) @@ (W("missing") :> Variant)

\* Every entry of the list `old` is at the same position in `new`
KeptIn(old, new) == Len(old) <= Len(new) /\ SubSeq(new, 1, Len(old)) = old

\* C26: whatever the call, selectAll() included, the builder it returns
\* holds every selection, join, WHERE condition, GROUP BY expression, HAVING
\* condition and ORDER BY item of the builder it was made on, each at the
\* position it had.
C26_AppendOnly ==
  \A i \in DOMAIN builders :
    builders[i].parent # 0 =>
      LET new == builders[i].node
          old == builders[builders[i].parent].node
      IN /\ KeptIn(old.selections, new.selections)
         /\ KeptIn(old.joins, new.joins)
         /\ KeptIn(old.where, new.where)
         /\ KeptIn(old.groupBy, new.groupBy)
         /\ KeptIn(old.having, new.having)
         /\ KeptIn(old.orderBy, new.orderBy)

(***************************************************************************)
(* SpecWhere: queries on base.events with conditions given as column,      *)
(* operator and value and as callbacks                                     *)
(***************************************************************************)
Strings ==
  { W("0x1234"),
    W("Transfer"),
    <<"Transfer", "(", "address", ",", "address", ",", "uint256", ")">>,
    <<"hello", " ", "world">>,
    <<"it", "'", "s">>,
    <<"t", ".", "address">>,
    W("*"),
    Empty }

ComparedColumns == {Col("address"), Col("event_name")}

EqWhereArgs ==
  {<<StrArg(c), W("="), StrVal(s)>> : c \in ComparedColumns, s \in Strings}
    \cup {<<FnArg(Recipe("eq", c, s, Empty)), Empty, NoVal>> :
            c \in ComparedColumns, s \in Strings}

NextWhere ==
  \/ SelectFrom({Events})
  \/ Select({StrArg(Col("address"))})
  \/ Where(EqWhereArgs)

SpecWhere == Init /\ [][NextWhere]_vars

\* c = '<s>'
Equals(c, s) == c \o <<" ", "=", " ", "'">> \o s \o W("'")

\* The call that made the builder
LastCall(this) == this.calls[Len(this.calls)]

IsEqCallback(call) ==
  call.op = "where" /\ call.a[1].form = "callback" /\ call.a[1].fn.m = "eq"

IsEqWhere(call) ==
  call.op = "where" /\ call.a[1].form = "string" /\ call.a[2] = W("=")
    /\ call.a[3].tag = "string"

\* C22: where(c, '=', s) and where(eb => eb.eq(eb.col(c), s)) compile to the
\* same SQL for every column c and every string s, with s as a string literal
\* in single quotes: c = '<s>'.
C22_EqSameSql ==
  \A i, j \in DOMAIN builders :
    (/\ builders[i].parent = builders[j].parent
     /\ IsEqWhere(LastCall(builders[i]))
     /\ IsEqCallback(LastCall(builders[j]))
     /\ LastCall(builders[j]).a[1].fn.column = LastCall(builders[i]).a[1].column
     /\ LastCall(builders[j]).a[1].fn.key = LastCall(builders[i]).a[3].value)
    => /\ Sql(builders[i]) = Sql(builders[j])
       /\ EndsWith(Sql(builders[j]),
                   Equals(LastCall(builders[i]).a[1].column,
                          LastCall(builders[i]).a[3].value))

(***************************************************************************)
(* SpecSelect: queries on blocks, alone and joined with transactions as t, *)
(* that select one column by each of the string forms                      *)
(***************************************************************************)

\* A select string by its parts: [table.]column[ as alias]
SelectForms ==
  [table : {Empty, W("blocks"), Blocks, W("t")},
   column : {Col("block_number"), Col("miner"), Col("transaction_hash")},
   alias : {Empty, W("x")}]

FormText(f) ==
  (IF f.table # Empty THEN f.table \o W(".") ELSE Empty) \o f.column
    \o (IF f.alias # Empty THEN <<" ", "as", " ">> \o f.alias ELSE Empty)

\* [table.]column[ AS alias]
FormSql(f) ==
  (IF f.table # Empty THEN f.table \o W(".") ELSE Empty) \o f.column
    \o (IF f.alias # Empty THEN <<" ", "AS", " ">> \o f.alias ELSE Empty)

FormKey(f) == IF f.alias # Empty THEN f.alias ELSE f.column

\* The table of f is in scope and has the column of f
FormInScope(this, f) ==
  IF f.table = Empty THEN f.column \in AnyColumn(this.ext, this.TB)
  ELSE f.table \in this.TB /\ f.column \in DOMAIN DBRow(this.ext, f.table)

\* The catalog type of the column of f
FormType(this, f) ==
  IF f.table = Empty THEN MergedColumns(this.ext, this.TB)[f.column]
  ELSE DBRow(this.ext, f.table)[f.column]

FormJoinArgs ==
  { <<Transactions \o <<" ", "as", " ", "t">>,
      Col("block_number"), W("="), Dot("t", "block_number")>> }

NextSelect ==
  \/ SelectFrom({Blocks, W("blocks")})
  \/ InnerJoin(FormJoinArgs)
  \/ Select({StrArg(FormText(f)) : f \in SelectForms})

SpecSelect == Init /\ [][NextSelect]_vars

\* C23: select takes 'col', 'col as alias', 'table.col' and
\* 'table.col as alias'; in each form the compiled select item is
\* [table.]col[ AS alias] and the row gains exactly one key, the alias if
\* one is given and the bare column name otherwise, with the catalog type of
\* the column.
C23_SelectForms ==
  \A i \in DOMAIN builders : \A f \in SelectForms :
    LET this == builders[i]
        made == LastCall(this)
    IN (/\ made.op = "select"
        /\ made.a[1] = StrArg(FormText(f))
        /\ FormInScope(builders[this.parent], f)
        /\ FormKey(f) \notin DOMAIN builders[this.parent].O)
       => /\ compileNode(this.node.selections[Len(this.node.selections)]) = FormSql(f)
          /\ this.O = builders[this.parent].O @@ (FormKey(f) :> FormType(builders[this.parent], f))

\* C24: whatever builder calls were made, the compiled text has a SELECT
\* list of at least one item and a FROM target, and no AND / OR group
\* without operand.
C24_WellFormedSql ==
  \A i \in DOMAIN builders :
    LET s == Sql(builders[i])
    IN /\ Trim(Entries(s, 2)) # Empty
       /\ Trim(Entries(s, 3)) # Empty
       /\ ~Contains(s, <<"(", ")">>)
       /\ \A k \in 1..Len(s) :
            s[k] \in {"AND", "OR", "WHERE", "HAVING"} =>
              /\ k + 2 <= Len(s)
              /\ s[k + 1] = " "
              /\ s[k + 2] \notin {" ", "AND", "OR", ")"}

(***************************************************************************)
(* SpecBoth: queries on transfers, alone and joined with transactions as   *)
(* t, whose compiled text the text path resolves                           *)
(***************************************************************************)
BothSelectArgs ==
  { StrArg(Col("token_address")),
    StrArg(Phrase(<<"token_address", "as", "token">>)),
    StrArg(Col("value")),
    StrArg(Dot("t", "value")),
    StrArg(Dot("transfers", "value")),
    StrArg(Dot("t", "gas")),
    StrArg(Col("nothing")),
    ArrArg(<<Col("log_index"), Dot("t", "transaction_hash")>>) }

BothJoinArgs ==
  { <<Transactions \o <<" ", "as", " ", "t">>,
      Dot("transfers", "block_number"), W("="), Dot("t", "block_number")>> }

NextBoth ==
  \/ SelectFrom({W("transfers")})
  \/ InnerJoin(BothJoinArgs)
  \/ Select(BothSelectArgs)

SpecBoth == Init /\ [][NextBoth]_vars

\* C25: the row the builder has computed from the calls that made it is the
\* row the text path resolves from the text the builder compiles to, alias
\* by alias and type by type; also for a table-qualified column of a join
\* whose tables share the column name and for a selected name that is no
\* column.
C25_PathsAgree ==
  \A i \in DOMAIN builders :
    Len(builders[i].node.selections) > 0 =>
      TypedQuery(Sql(builders[i])) = Row(compile(builders[i]).O)

(***************************************************************************)
(* SpecNested: with() whose callback defines a CTE of its own before it    *)
(* selects, and the queries begun on the creators that gives               *)
(***************************************************************************)
NestedNames == {W("outer"), W("recent")}

NestedBodies ==
  { Body(Blocks, StrArg(Col("miner"))),
    Body(W("recent"), StrArg(Col("miner"))),
    NestedBody(W("inner"), Body(Blocks, ArrArg(<<Col("block_number"), Col("miner")>>)),
               W("inner"), StrArg(Col("miner"))),
    NestedBody(W("inner"), Body(Events, StrArg(Col("address"))),
               Blocks, StrArg(Col("block_number"))) }

NextNested ==
  \/ With(NestedNames, NestedBodies)
  \/ SelectFrom({W("outer"), W("recent"), Blocks})
  \/ Select({StrArg(Col("miner")), StrArg(Col("block_number"))})

SpecNested == Init /\ [][NextNested]_vars

\* The name that starts at position k of s: the lexemes up to the next
\* space or closing parenthesis
NameAt(s, k) ==
  LET ends == {j \in k..Len(s) : s[j] \in {" ", ")"}}
      end == IF ends = {} THEN Len(s) + 1
             ELSE CHOOSE j \in ends : \A m \in ends : j <= m
  IN SubSeq(s, k, end - 1)

\* The FROM targets of s, those of the CTE bodies included
FromTargets(s) == {NameAt(s, k + 2) : k \in {j \in 1..(Len(s) - 2) : s[j] = "FROM"}}

\* The names s defines in a WITH list: <name> AS (
DefinedNames(s) ==
  {W(s[k - 1]) : k \in {j \in 2..(Len(s) - 3) :
                          SubSeq(s, j, j + 3) = <<" ", "AS", " ", "(">>}}

\* The CTE names the callbacks of the with() calls that made creator c
\* defined before they selected
RECURSIVE InnerNames(_)
InnerNames(c) ==
  IF creators[c].parent = 0 THEN {}
  ELSE InnerNames(creators[c].parent)
         \cup {creators[c].fn.inner[k].name : k \in DOMAIN creators[c].fn.inner}

\* C27: the CTEs a with() callback defines on its creator before selectFrom
\* are in the WITH list of the outer statement, and every name that the
\* outer query or the body of a CTE selects from is a table of the catalog
\* or a name the compiled text defines.
C27_NestedHoisted ==
  \A i \in DOMAIN builders :
    LET s == Sql(builders[i])
    IN /\ InnerNames(builders[i].creator) \subseteq DefinedNames(s)
       /\ FromTargets(s) \subseteq DOMAIN CdpDatabase \cup DefinedNames(s)

(***************************************************************************)
(* SpecLogic: queries on base.blocks with conditions nested of eb.and,     *)
(* eb.or and eb.not                                                        *)
(***************************************************************************)
Leaf(c) == [op |-> "isNull", c |-> c, args |-> <<>>]

NotOf(t) == [op |-> "not", c |-> Empty, args |-> <<t>>]

AndOf(t, u) == [op |-> "and", c |-> Empty, args |-> <<t, u>>]

OrOf(t, u) == [op |-> "or", c |-> Empty, args |-> <<t, u>>]

LeafA == Leaf(Col("miner"))

LeafB == Leaf(Col("nonce"))

Literals == {LeafA, LeafB, NotOf(LeafA), NotOf(LeafB)}

Pairs == {AndOf(t, LeafB) : t \in Literals} \cup {OrOf(t, LeafB) : t \in Literals}

Conditions ==
  Literals \cup Pairs \cup {NotOf(t) : t \in Pairs}
    \cup {AndOf(LeafA, t) : t \in Pairs} \cup {OrOf(LeafA, t) : t \in Pairs}

NextLogic ==
  \/ SelectFrom({Blocks})
  \/ Select({StrArg(Col("miner"))})
  \/ Where({<<FnArg(Recipe("nested", Empty, t, Empty)), Empty, NoVal>> : t \in Conditions})

SpecLogic == Init /\ [][NextLogic]_vars

\* The truth value of the nesting t when the columns of `nulls` are NULL
RECURSIVE Holds(_, _)
Holds(t, nulls) ==
  CASE t.op = "isNull" -> t.c \in nulls
    [] t.op = "not" -> ~Holds(t.args[1], nulls)
    [] t.op = "and" -> \A k \in DOMAIN t.args : Holds(t.args[k], nulls)
    [] t.op = "or" -> \E k \in DOMAIN t.args : Holds(t.args[k], nulls)

Equivalent(t, u) ==
  \A nulls \in SUBSET {Col("miner"), Col("nonce")} : Holds(t, nulls) <=> Holds(u, nulls)

IsNestedWhere(call) ==
  call.op = "where" /\ call.a[1].form = "callback" /\ call.a[1].fn.m = "nested"

\* C29: two conditions nested of And, Or and Not that are not logically
\* equivalent never compile to the same text; eb.not(eb.and(a, b)) and
\* eb.and(eb.not(a), b) in particular compile to different texts.
C29_StructureKept ==
  \A i, j \in DOMAIN builders :
    (/\ builders[i].parent = builders[j].parent
     /\ IsNestedWhere(LastCall(builders[i]))
     /\ IsNestedWhere(LastCall(builders[j]))
     /\ ~Equivalent(LastCall(builders[i]).a[1].fn.key, LastCall(builders[j]).a[1].fn.key))
    => Sql(builders[i]) # Sql(builders[j])

(***************************************************************************)
(* SpecMaps: queries on base.events that read both map columns, with and   *)
(* without an ABI and an event signature                                   *)
(***************************************************************************)
ParameterTypes == W("parameter_types")

MapSelectArgs ==
  { FnArg(<<Recipe("map", c, W("from"), W("a")), Recipe("map", c, W("value"), W("b"))>>) :
      c \in {Parameters, ParameterTypes} }
    \cup { FnArg(<<Recipe("map", ParameterTypes, W("nope"), W("c"))>>) }

NextMaps ==
  \/ MakeCdpQueryCreator({Erc20Abi})
  \/ SelectFrom({Events})
  \/ Where(AbiWhereArgs)
  \/ Select(MapSelectArgs)

SpecMaps == Init /\ [][NextMaps]_vars

\* The value type the schema declares for the map column of the tables of a
\* builder
DeclaredValueType(this, column) ==
  UNION {m.of : m \in MergedColumns(this.ext, this.TB)[column]}

\* The recipes of the select callback that made entry i that read a map
\* column other than parameters
OtherMaps(i) ==
  LET fn == LastCall(builders[i]).a[1].fn
  IN {fn[k] : k \in {j \in DOMAIN fn : fn[j].m = "map" /\ fn[j].column # Parameters}}

\* C30: with an ABI supplied and an event signature narrowed, map access on
\* a map column other than parameters still has the column's own declared
\* value type.
C30_OnlyParameters ==
  \A i \in DOMAIN builders :
    (SelectedOn(i) /\ builders[builders[i].parent].ABI # <<>>
       /\ Narrowed(builders[builders[i].parent]))
    => \A r \in OtherMaps(i) :
         r.alias \notin DOMAIN builders[builders[i].parent].O
           => compile(builders[i]).O[r.alias]
                = DeclaredValueType(builders[builders[i].parent], r.column)

====
